---- MODULE Spec2Model ----
(***************************************************************************)
(* A model of pysb/gabi_sampling.py: the Sobol design-matrix construction  *)
(* (genCmtx), the ODE evaluation environment (odeinit / odesolve), the     *)
(* data comparator (compare_data) and the sensitivity evaluator            *)
(* (parmeval).                                                             *)
(*                                                                         *)
(* Floating point values are modelled as exact rationals <<n, d>> with     *)
(* d > 0 and gcd(n, d) = 1; the IEEE specials that the code relies on are  *)
(* <<0, 0>> (NaN), <<1, 0>> (+inf) and <<-1, 0>> (-inf).  Parameter values *)
(* are integers; storing one in the ctypes c_float buffer rounds it to     *)
(* single precision (CFloat).                                              *)
(***************************************************************************)
EXTENDS Integers, Sequences, FiniteSets, TLC

VARIABLES
    \* design matrices: arguments of genCmtx and of parmeval
    sobmtxA, sobmtxB, sobmtxC,
    \* position of the genCmtx call
    gpc,
    \* the model's parameter values, model.parameters[i].value
    pvalue,
    \* the environment odeinit returns: data.p (C float buffer) and yzero
    p, yzero,
    \* odesolve called on its own: the calls made so far (their arguments and
    \* the buffer each found) and what the last call returned
    hist, ret,
    \* compare_data called on its own: its arguments, its loop index i, its
    \* objout list, where it is and the exception it raised
    xparray, simarray, cpairs, cvardata, ci, objout, cpc, cerr,
    \* observers of compare_data: the divisor array of its last iteration
    \* (xparrayvar after line 215), the number of the call under way when
    \* it is called again with the same arguments, what its first call
    \* returned, and the arrays as they were passed to the first call
    cdivisor, ccall, cfirst, cxp0, csim0,
    \* compare_data's name i (0-based, -1 before its first binding), which
    \* both of its loops bind, and the entries of xspairlist its iterations
    \* have indexed
    cvar, cvisited,
    \* parmeval: its arguments other than the design matrices, where it is,
    \* its loop indices i and j, its arrays yA, yB, yC, its locals outlist
    \* and outlistnorm, and the exception it raised
    args, pc, i, j, yA, yB, yC, outlist, outlistnorm, err,
    \* observers of a parmeval run: the simarray argument of the last
    \* compare_data call and the numbers of odesolve calls, of compare_data
    \* calls and of objectives computed inside compare_data
    handed, nsolve, ncompare, nobj,
    \* getvarsens: its arguments yA, yB, yC, where it is, and the arrays
    \* Sens and SensT it returns
    vyA, vyB, vyC, vpc, Sens, SensT,
    \* two odesolve calls running at once on one environment: the arguments of
    \* each, where each is, its loop index, the trajectory its integrator has
    \* built, whether its right-hand side has read a buffer slot last written
    \* by the other call, and the call that last wrote each buffer slot
    targs, tpc, tn, tyout, tread, pwriter,
    \* the loop iterations of parmeval run in any order: the iterations that
    \* have run, and for each iteration the row it stores when it is the only
    \* one run on the environment odeinit built
    odone, oexpect,
    \* _macro_rule: its arguments, where it is, the components of the current
    \* model, its locals r_name, k1, k2, params_created and r, the ComponentSet
    \* it returns and the exception it raised
    rule_prefix, rule_expression, klist, ksuffixes, mpc, mmodel,
    r_name, k1, k2, params_created, rule, components, merr,
    \* writetofile: what has been written to fout, the number of simparms, the
    \* shape of simdata, where the function is, and its loop indices i and j
    fout, wparms, imax, jmax, wpc, wi, wj,
    \* getlog: its arguments sobolarr, params, omag, useparams and usemag, its
    \* arrays ub and lb, its loop index i, the array sobprmarr it returns, where
    \* it is and the exception it raised
    sobolarr, lparams, omag, luseparams, usemag, ub, lb, li, sobprmarr, lpc, lerr,
    \* sample_vary_all: the sampled vectors sobvals_scaled, its argument
    \* knockouts, its dict params (the values in the order of its keys), the
    \* values of model.parameters, the rows written to params.csv and to
    \* observations.csv, its loop index i, the knockout_params of every
    \* iteration so far, where it is and the exception it raised
    sobvals_scaled, knockouts, kparams, kmodel, pfile, ofile, ki, kchosen, kpc, kerr,
    \* bind_table: its kmatrix, its argument kf, its loop indices r and c, its
    \* ComponentSet components, the components of the current model, where it
    \* is and the exception it raised
    kmatrix, kf, brow, bcol, bcomponents, bmodel, bpc, berr,
    \* catalyze: its argument klist, whether enzyme and substrate have the
    \* sites named, its ComponentSet components, the components of the current
    \* model, where it is and the exception it raised
    cklist, sites_ok, zcomponents, zmodel, zpc, zerr,
    \* pore_transport and pore_bind: the macro called, its arguments min_size,
    \* max_size and ktable (size, size and [klist] for pore_bind), its loop
    \* variable size, its patterns pore_free, pore_bound and pc_complex, its
    \* ComponentSet components, the components of the current model, where it
    \* is and the exception it raised
    pmacro, min_size, max_size, ktable, psize, pore_free, pore_bound, pc_complex, pcomponents, pmodel, ppc, perr

genVars == <<sobmtxA, sobmtxB, sobmtxC, gpc>>
envVars == <<pvalue, p, yzero>>
odeVars == <<hist, ret>>
cmpVars == <<xparray, simarray, cpairs, cvardata, ci, objout, cpc, cerr,
             cdivisor, ccall, cfirst, cxp0, csim0, cvar, cvisited>>
pmVars == <<args, pc, i, j, yA, yB, yC, outlist, outlistnorm, err,
            handed, nsolve, ncompare, nobj>>
sensVars == <<vyA, vyB, vyC, vpc, Sens, SensT>>
concVars == <<targs, tpc, tn, tyout, tread, pwriter>>
ordVars == <<odone, oexpect>>
macroVars == <<rule_prefix, rule_expression, klist, ksuffixes, mpc, mmodel,
               r_name, k1, k2, params_created, rule, components, merr>>
fileVars == <<fout, wparms, imax, jmax, wpc, wi, wj>>
logVars == <<sobolarr, lparams, omag, luseparams, usemag, ub, lb, li, sobprmarr, lpc, lerr>>
varyVars == <<sobvals_scaled, knockouts, kparams, kmodel, pfile, ofile, ki, kchosen, kpc, kerr>>
tableVars == <<kmatrix, kf, brow, bcol, bcomponents, bmodel, bpc, berr>>
catVars == <<cklist, sites_ok, zcomponents, zmodel, zpc, zerr>>
poreVars == <<pmacro, min_size, max_size, ktable, psize, pore_free, pore_bound, pc_complex, pcomponents, pmodel, ppc, perr>>
vars == <<sobmtxA, sobmtxB, sobmtxC, gpc, pvalue, p, yzero, hist, ret,
          xparray, simarray, cpairs, cvardata, ci, objout, cpc, cerr,
          cdivisor, ccall, cfirst, cxp0, csim0, cvar, cvisited,
          args, pc, i, j, yA, yB, yC, outlist, outlistnorm, err,
          handed, nsolve, ncompare, nobj,
          vyA, vyB, vyC, vpc, Sens, SensT,
          targs, tpc, tn, tyout, tread, pwriter,
          odone, oexpect,
          rule_prefix, rule_expression, klist, ksuffixes, mpc, mmodel,
          r_name, k1, k2, params_created, rule, components, merr,
          fout, wparms, imax, jmax, wpc, wi, wj,
          sobolarr, lparams, omag, luseparams, usemag, ub, lb, li, sobprmarr, lpc, lerr,
          sobvals_scaled, knockouts, kparams, kmodel, pfile, ofile, ki, kchosen, kpc, kerr,
          kmatrix, kf, brow, bcol, bcomponents, bmodel, bpc, berr,
          cklist, sites_ok, zcomponents, zmodel, zpc, zerr,
          pmacro, min_size, max_size, ktable, psize, pore_free, pore_bound, pc_complex, pcomponents, pmodel, ppc, perr>>

(***************************************************************************)
(* Bounds of the model.                                                    *)
(***************************************************************************)
\* largest number of parameter columns of a design matrix given to genCmtx
MaxP == 2
\* largest number of sample rows of a design matrix
MaxN == 2
\* largest number of odesolve calls made on one environment
MaxCalls == 2
\* largest number of entries of a pairing list
MaxPairs == 2
\* largest number of sample rows of the design matrices given to parmeval
MaxSamples == 2
\* largest number of sample rows when the loop iterations run in any order
MaxOrdSamples == 1
\* largest number of elements of the klist and ksuffixes given to _macro_rule
MaxRates == 3
\* largest number of parameters of a record written by writetofile
MaxParms == 7
\* largest number of rows and of columns of the simdata of a record
MaxRows == 2
MaxCols == 12
\* largest number of parameters given to getlog
MaxLogParams == 2
\* largest order of magnitude given to getlog as omag or usemag
MaxMag == 2
\* largest number of parameters of the model given to sample_vary_all
MaxVaryParams == 2
\* largest number n of samples asked of sample_vary_all
MaxVarySamples == 2
\* largest numbers of rows and of columns of the kmatrix of a bind table
MaxTableRows == 1
MaxTableCols == 2
\* largest pore size given to pore_bind and pore_transport
MaxPoreSize == 4
\* the most calls of compare_data made with the same arguments
MaxRepeat == 2

(***************************************************************************)
(* Matrices are sequences of rows; a row is a sequence of values.          *)
(***************************************************************************)
Matrices(n, cols, Vals) == [1..n -> [1..cols -> Vals]]

\* values of the entries of A and of B given to genCmtx
AVals == {1, 2}
BVals == {2, 3}

(***************************************************************************)
(* genCmtx                                                                 *)
(***************************************************************************)
\* sobmtxC[i,:,i] = sobmtxA[:,i] for one i: column col of M taken from A
ReplaceColumn_SkipLastRow(M, col, A) ==
    [r \in 1..Len(M) |->
        IF r = Len(M) THEN M[r] ELSE [M[r] EXCEPT ![col] = A[r][col]]]

ReplaceColumn(M, col, A) ==
    [r \in 1..Len(M) |-> [M[r] EXCEPT ![col] = A[r][col]]]

RECURSIVE genCmtxLoop(_, _, _, _)
\* for i in range(nparams): sobmtxC[i,:,i] = sobmtxA[:,i], from i = k - 1 on
genCmtxLoop(C, A, k, nparams) ==
    IF k > nparams THEN C
    ELSE genCmtxLoop([C EXCEPT ![k] = ReplaceColumn(C[k], k, A)], A, k + 1, nparams)

genCmtx(A, B) ==
    LET nparams == Len(A[1])
        copies  == [k \in 1..nparams |-> B]
    IN  genCmtxLoop(copies, A, 1, nparams)

(***************************************************************************)
(* Floating point arithmetic on exact rationals.                           *)
(***************************************************************************)
Abs(a) == IF a < 0 THEN -a ELSE a

RECURSIVE GCD(_, _)
GCD(a, b) == IF b = 0 THEN a ELSE GCD(b, a % b)

Sign(a) == IF a > 0 THEN 1 ELSE IF a < 0 THEN -1 ELSE 0

\* the float n/d: reduced, the sign in the numerator; x/0 is +-inf, 0/0 is NaN
Norm(n, d) ==
    IF d = 0 THEN <<Sign(n), 0>>
    ELSE LET g == GCD(Abs(n), Abs(d))
         IN  <<Sign(d) * (n \div g), Abs(d) \div g>>

R(n) == <<n, 1>>
NaN == <<0, 0>>
Inf == <<1, 0>>
IsNaN(a) == a = NaN
IsInf(a) == a[2] = 0 /\ a[1] # 0
IsFinite(a) == a[2] # 0

RNeg(a) == <<-a[1], a[2]>>
\* sums and products are formed over the least common denominator and after
\* cancelling common factors, which keeps the integers small
RAdd(a, b) ==
    IF a[2] = 0 \/ b[2] = 0
    THEN (IF IsInf(a) /\ IsInf(b) THEN (IF a = b THEN a ELSE NaN)
          ELSE Norm(a[1] * b[2] + b[1] * a[2], a[2] * b[2]))
    ELSE LET g == GCD(a[2], b[2])
         IN  Norm(a[1] * (b[2] \div g) + b[1] * (a[2] \div g), (a[2] \div g) * b[2])
RSub(a, b) == RAdd(a, RNeg(b))
RMul(a, b) ==
    IF a[2] = 0 \/ b[2] = 0 \/ a[1] = 0 \/ b[1] = 0
    THEN Norm(a[1] * b[1], a[2] * b[2])
    ELSE LET g1 == GCD(Abs(a[1]), b[2])
             g2 == GCD(Abs(b[1]), a[2])
         IN  Norm((a[1] \div g1) * (b[1] \div g2), (a[2] \div g2) * (b[2] \div g1))
RDiv(a, b) ==
    IF b[1] = 0 \/ b[2] = 0 \/ a[2] = 0 THEN Norm(a[1] * b[2], a[2] * b[1])
    ELSE RMul(a, <<Sign(b[1]) * b[2], Abs(b[1])>>)
\* a < b, for finite a and b
RSq(a) == RMul(a, a)
RLess(a, b) == a[1] * b[2] < b[1] * a[2]

RECURSIVE RSum(_)
RSum(s) == IF s = <<>> THEN R(0) ELSE RAdd(s[1], RSum(Tail(s)))

RECURSIVE RProd(_)
RProd(s) == IF s = <<>> THEN R(1) ELSE RMul(s[1], RProd(Tail(s)))

\* numpy.max / numpy.min of a row of finite values
RECURSIVE RMax(_)
RMax(s) ==
    IF Len(s) = 1 THEN s[1]
    ELSE LET m == RMax(Tail(s)) IN IF RLess(m, s[1]) THEN s[1] ELSE m
RECURSIVE RMin(_)
RMin(s) ==
    IF Len(s) = 1 THEN s[1]
    ELSE LET m == RMin(Tail(s)) IN IF RLess(s[1], m) THEN s[1] ELSE m

(***************************************************************************)
(* ctypes.c_float: a value stored in data.p is rounded to single           *)
(* precision, 24 significant bits, ties to even.                           *)
(***************************************************************************)
\* 2^24: integers below it are single precision numbers
FloatMantissa == 16777216

RECURSIVE Granule(_, _)
\* the spacing of the single precision numbers around a >= 0
Granule(a, g) == IF a < FloatMantissa * g THEN g ELSE Granule(a, 2 * g)

\* the value a c_float slot holds after v is stored in it
CFloat(v) ==
    LET a == Abs(v)
        g == Granule(a, 1)
        q == a \div g
        r == a % g
        up == IF 2 * r < g THEN q
              ELSE IF 2 * r > g THEN q + 1
              ELSE IF q % 2 = 0 THEN q ELSE q + 1
    IN  Sign(v) * up * g

(***************************************************************************)
(* The model object: parameters in model.parameters order, the initial     *)
(* conditions, the ODE right-hand sides and the observables.  A right-hand *)
(* side is a sum of terms c * <parameter name> * s<species>.               *)
(***************************************************************************)
ParamNames == <<"kf", "kr", "A_0">>
NumParams == Len(ParamNames)
\* the parameter values the model is built with
ParamNominal == <<1, 2, 4>>
\* model.initial_conditions: (species index of the pattern, index of ic_param)
initial_conditions == << [speci |-> 1, ic_param |-> 3] >>
\* model.odes
odes ==
    << << [c |-> -1, k |-> "kf", s |-> 1], [c |-> 1, k |-> "kr", s |-> 2] >>,
       << [c |-> 1, k |-> "kf", s |-> 1], [c |-> -1, k |-> "kr", s |-> 2] >> >>
odesize == Len(odes)
\* model.observables: species and coefficients of each observable
observables ==
    << [species |-> <<1>>, coefficients |-> <<1>>],
       [species |-> <<1, 2>>, coefficients |-> <<1, 2>>] >>
NumObs == Len(observables)

(***************************************************************************)
(* odeinit                                                                 *)
(***************************************************************************)
\* number of output points of a solve (odeinit's nsteps argument)
nsteps == 4

\* re.sub(<parameter.name>, 'p[%d]' % j): the buffer index a name is given
ParamIndex(name) == CHOOSE jj \in 1..NumParams : ParamNames[jj] = name

\* the compiled right-hand sides: names replaced by buffer positions
rhs_exprs ==
    [e \in 1..odesize |->
        [t \in 1..Len(odes[e]) |->
            [c |-> odes[e][t].c, pidx |-> ParamIndex(odes[e][t].k), s |-> odes[e][t].s]]]

\* f(y, t): dy/dt, read from the buffer at the time of the evaluation
f(y, buf) ==
    [e \in 1..odesize |->
        RSum([t \in 1..Len(rhs_exprs[e]) |->
                RMul(R(rhs_exprs[e][t].c * buf[rhs_exprs[e][t].pidx]),
                     y[rhs_exprs[e][t].s])])]

RECURSIVE AssignIcs(_, _, _)
\* for cplxptrn, ic_param in model.initial_conditions: yzero[speci] = ic_param.value
AssignIcs(yz, values, n) ==
    IF n > Len(initial_conditions) THEN yz
    ELSE AssignIcs([yz EXCEPT ![initial_conditions[n].speci] =
                                 R(values[initial_conditions[n].ic_param])],
                   values, n + 1)

\* yzero after odeinit
odeinit_yzero(values) == AssignIcs([e \in 1..odesize |-> R(0)], values, 1)
\* data.p[:] = [p.value for p in model.parameters]
odeinit_p(values) == [jj \in 1..NumParams |-> CFloat(values[jj])]

(***************************************************************************)
(* odesolve                                                                *)
(***************************************************************************)
\* useparams=None, or a list of buffer positions (1-based here)
None == [none |-> TRUE, idx |-> <<>>]
Given(idx) == [none |-> FALSE, idx |-> idx]

\* the loop stopping one position short
SetAll_SkipLast(buf, params, n) ==
    [jj \in 1..Len(buf) |->
        IF jj >= n /\ jj < Len(params) THEN CFloat(params[jj]) ELSE buf[jj]]

RECURSIVE SetAll(_, _, _)
\* for i in range(len(params)): data.p[i] = params[i]
SetAll(buf, params, n) ==
    IF n > Len(params) THEN buf
    ELSE SetAll([buf EXCEPT ![n] = CFloat(params[n])], params, n + 1)

\* the subset loop writing position i instead of position useparams[i]
SetSubset_Unmapped(buf, params, idx, n) ==
    [jj \in 1..Len(buf) |->
        IF jj >= n /\ jj <= Len(idx) THEN CFloat(params[jj]) ELSE buf[jj]]

RECURSIVE SetSubset(_, _, _, _)
\* for i in range(len(useparams)): data.p[useparams[i]] = params[i]
SetSubset(buf, params, idx, n) ==
    IF n > Len(idx) THEN buf
    ELSE SetSubset([buf EXCEPT ![idx[n]] = CFloat(params[n])], params, idx, n + 1)

\* the buffer after lines 109-116
SetParams(buf, params, useparams) ==
    IF useparams.none THEN SetAll(buf, params, 1)
    ELSE SetSubset(buf, params, useparams.idx, 1)

\* if ic is True: yzero[speci] = ic_param.value
ReinitIcs(yz, flag, values) ==
    IF flag THEN AssignIcs(yz, values, 1) ELSE yz

\* the initial conditions re-read from the parameter buffer, not the model
odesolve_env_IcFromBuffer(buf, yz, values, params, useparams, flag) ==
    LET nb == SetParams(buf, params, useparams)
    IN  [p |-> nb, yzero |-> ReinitIcs(yz, flag, nb)]

\* the environment after lines 105-128: data.p and yzero
odesolve_env(buf, yz, values, params, useparams, flag) ==
    [p |-> SetParams(buf, params, useparams), yzero |-> ReinitIcs(yz, flag, values)]

\* numpy.linspace(tinit, tfinal, nsteps)
linspace(tinit, tfinal, n) ==
    [t \in 1..n |-> RAdd(R(tinit), RMul(R(t - 1), RDiv(R(tfinal - tinit), R(n - 1))))]

RECURSIVE EulerSteps(_, _, _, _)
\* one explicit Euler step per output point after the first
EulerSteps(yout, buf, xout, t) ==
    IF t > Len(xout) THEN yout
    ELSE LET dt == RSub(xout[t], xout[t - 1])
             yd == f(yout[t - 1], buf)
             yn == [e \in 1..odesize |-> RAdd(yout[t - 1][e], RMul(dt, yd[e]))]
         IN  EulerSteps(Append(yout, yn), buf, xout, t + 1)

\* scipy's odeint(f, yzero, xout), an external integrator: a deterministic
\* function of the right-hand side, the initial state and the grid, here
\* the explicit Euler scheme on the output grid
odeint(buf, y0, xout) == EulerSteps(<<y0>>, buf, xout, 2)

\* yobs[i] = (yout[:, specs] * coeffs).sum(1)
ObsRow(yout, obs) ==
    [t \in 1..Len(yout) |->
        RSum([n \in 1..Len(obs.species) |->
                RMul(R(obs.coefficients[n]), yout[t][obs.species[n]])])]

\* what odesolve returns, given the buffer and yzero it has set
odesolve_out(buf, yz, tinit, tfinal) ==
    LET xout == linspace(tinit, tfinal, nsteps)
        yout == odeint(buf, yz, xout)
        yobs == [o \in 1..NumObs |-> ObsRow(yout, observables[o])]
    IN  [xyobs |-> <<xout>> \o yobs, xout |-> xout, yout |-> yout, yobs |-> yobs]

(***************************************************************************)
(* compare_data                                                            *)
(*                                                                         *)
(* Arrays are sequences of rows; row r of the code (0-based) is element    *)
(* r + 1 here.  A pairing entry records whether it is a tuple and its      *)
(* elements, which are 0-based row numbers as in the code.                 *)
(***************************************************************************)
Tuple(elems) == [tuple |-> TRUE, elems |-> elems]
List(elems) == [tuple |-> FALSE, elems |-> elems]
Row(arr, r) == arr[r + 1]
HasRow(arr, r) == r >= 0 /\ r < Len(arr)

\* an objective value: v + eps * 1e-100, the clamp constant kept symbolic
Objective(v, eps) == [v |-> v, eps |-> eps]
ZeroObjective == Objective(R(0), 0)

\* scipy.interpolate.splrep(x, y) followed by splev(t, tck): the cubic
\* interpolating spline through four points (nsteps = 4) has no interior
\* knot and is the cubic polynomial through them, also outside [x0, x3]
splev(x, y, t) ==
    RSum([n \in 1..Len(x) |->
            RMul(y[n],
                 RProd([m \in 1..Len(x) |->
                          IF m = n THEN R(1)
                          ELSE RDiv(RSub(t, x[m]), RSub(x[n], x[m]))]))])

\* numpy.isnan(term) alone
Clamped_NaNOnly(term) == IsNaN(term)

\* numpy.isinf(term) or numpy.isnan(term): the terms set to 1e-100
Clamped(term) == IsNaN(term) \/ IsInf(term)

\* the pairing read as (simulated row, experimental row)
diffsqarray_SwappedAxes(xp, sim, pair) ==
    LET ipsimarray == [t \in 1..Len(xp[1]) |->
                          splev(Row(sim, 0), Row(sim, pair.elems[1]), Row(xp, 0)[t])]
        diffarray == [t \in 1..Len(xp[1]) |->
                          RSub(ipsimarray[t], Row(xp, pair.elems[2])[t])]
    IN  [t \in 1..Len(xp[1]) |-> RSq(diffarray[t])]

\* lines 191-204: the squared residuals of the resampled simulated row
diffsqarray(xp, sim, pair) ==
    LET xparrayaxis == pair.elems[1]
        simarrayaxis == pair.elems[2]
        ipsimarray == [t \in 1..Len(xp[1]) |->
                          splev(Row(sim, 0), Row(sim, simarrayaxis), Row(xp, 0)[t])]
        diffarray == [t \in 1..Len(xp[1]) |->
                          RSub(ipsimarray[t], Row(xp, xparrayaxis)[t])]
    IN  [t \in 1..Len(xp[1]) |-> RSq(diffarray[t])]

\* the variance row read from the measurement's own row
xparrayvar_OwnRow(xp, xparrayaxis, vardata) ==
    IF vardata THEN Row(xp, xparrayaxis)
    ELSE [t \in 1..Len(xp[1]) |->
             RSq(RMul(Row(xp, xparrayaxis)[t], Norm(1, 10)))]

\* lines 206-213: the variance row
xparrayvar(xp, xparrayaxis, vardata) ==
    IF vardata THEN Row(xp, xparrayaxis + 1)
    ELSE LET tenth == [t \in 1..Len(xp[1]) |->
                          RMul(Row(xp, xparrayaxis)[t], Norm(1, 10))]
         IN  [t \in 1..Len(xp[1]) |-> RMul(tenth[t], tenth[t])]

\* line 215: xparrayvar = xparrayvar * 2.0, a new array
divisor(xp, xparrayaxis, vardata) ==
    [t \in 1..Len(xp[1]) |-> RMul(xparrayvar(xp, xparrayaxis, vardata)[t], R(2))]

\* lines 215-217: objarray = diffsqarray / xparrayvar
objarray(xp, sim, pair, vardata) ==
    LET dsq == diffsqarray(xp, sim, pair)
        div == divisor(xp, pair.elems[1], vardata)
    IN  [t \in 1..Len(xp[1]) |-> RDiv(dsq[t], div[t])]

\* line 215 as an in-place doubling of the row xparrayvar is a view of
ArraysAfter_InPlace(xp, sim, pair, vardata) ==
    [xp |-> IF vardata
            THEN [xp EXCEPT ![pair.elems[1] + 2] =
                     [t \in 1..Len(@) |-> RMul(@[t], R(2))]]
            ELSE xp,
     sim |-> sim]

\* the caller's arrays after one iteration: every array the iteration
\* writes (ipsimarray, diffarray, xparrayvar after lines 212 and 215,
\* objarray) is a new one, none a view of xparray or simarray
ArraysAfter(xp, sim, pair, vardata) == [xp |-> xp, sim |-> sim]

\* the terms that are neither inf nor NaN
Kept(terms) == SelectSeq(terms, LAMBDA term : ~Clamped(term))

\* lines 219-229: inf and NaN terms set to 1e-100, then objarray.sum()
ClampedSum(terms) == Objective(RSum(Kept(terms)), Len(terms) - Len(Kept(terms)))

CmpObjective(xp, sim, pair, vardata) == ClampedSum(objarray(xp, sim, pair, vardata))

\* one iteration of the loop over xspairlist, lines 179-229
CmpIteration(xp, sim, pair, vardata) ==
    IF ~pair.tuple \/ Len(pair.elems) # 2
    THEN [err |-> "AssertionError", obj |-> ZeroObjective]
    ELSE IF \/ ~HasRow(sim, pair.elems[2])
            \/ ~HasRow(xp, pair.elems[1])
            \/ (vardata /\ ~HasRow(xp, pair.elems[1] + 1))
    THEN [err |-> "IndexError", obj |-> ZeroObjective]
    ELSE [err |-> "none", obj |-> CmpObjective(xp, sim, pair, vardata)]

RECURSIVE CmpLoop(_, _, _, _, _, _)
RECURSIVE CmpAppend(_, _, _, _, _, _, _)
\* the loop from entry n on, out holding the objectives appended so far
CmpLoop(xp, sim, pairs, vardata, n, out) ==
    IF n > Len(pairs) THEN [err |-> "none", objout |-> out]
    ELSE CmpAppend(CmpIteration(xp, sim, pairs[n], vardata), xp, sim, pairs, vardata, n, out)

\* iteration n raises, or appends its objective and the loop goes on
CmpAppend(it, xp, sim, pairs, vardata, n, out) ==
    IF it.err # "none" THEN [err |-> it.err, objout |-> out]
    ELSE CmpLoop(xp, sim, pairs, vardata, n + 1, Append(out, it.obj))

\* compare_data(xparray, simarray, xspairlist, vardata): the exception it
\* raises, if any, and the objectives computed (returned if none is raised)
compare_data(xp, sim, pairs, vardata) == CmpLoop(xp, sim, pairs, vardata, 1, <<>>)

(***************************************************************************)
(* parmeval                                                                *)
(***************************************************************************)
\* a bool used as a number (numpy.linspace(True, ...))
Num(b) == IF b THEN 1 ELSE 0

\* odesolve(model, time, envlist, row, useparams, ic) bound to the signature
\* odesolve(model, tfinal, envlist, params, useparams=None, tinit=0.0, ic=True)
odesolve_call(row, time, useparams, ic) ==
    [params |-> row, tfinal |-> time, useparams |-> useparams,
     tinit |-> Num(ic), ic |-> TRUE]

\* the min-max scaling of every row, the time row included
scale(xyobs) ==
    [r \in 1..Len(xyobs) |->
        LET datamax == RMax(xyobs[r])
            datamin == RMin(xyobs[r])
        IN  [t \in 1..Len(xyobs[r]) |->
                RDiv(RSub(xyobs[r][t], datamin), RSub(datamax, datamin))]]

\* the scaling without the time row put back
normalize_TimeNotRestored(xyobs) == scale(xyobs)

\* lines 371-374: outlistnorm, its row 0 replaced by outlist[0][0].copy()
normalize(xyobs) == [scale(xyobs) EXCEPT ![1] = xyobs[1]]

\* a local no assignment has bound yet
Unbound == <<>>

\* numpy.zeros([rows, len(model.observable_patterns)])
zeros(rows) == [r \in 1..rows |-> [o \in 1..NumObs |-> ZeroObjective]]

\* y[i] = <objective vector>: numpy fills the row with a vector of its
\* length or of length one, and raises ValueError for any other
AssignRow(objs) ==
    IF Len(objs) = NumObs THEN [err |-> "none", row |-> objs]
    ELSE IF Len(objs) = 1 THEN [err |-> "none", row |-> [o \in 1..NumObs |-> objs[1]]]
    ELSE [err |-> "ValueError", row |-> <<>>]

\* yC[i] = row, which fills every row of yC[i]
StoreC_AllRows(y, ii, jj, row) == [y EXCEPT ![ii] = [r \in 1..Len(@) |-> row]]

\* yC[i][j] = row
StoreC(y, ii, jj, row) == [y EXCEPT ![ii][jj] = row]

\* the loops of C with an inner loop that stops after its first row
CAdvance_FirstRowOnly(C, ii, jj) ==
    IF ii < Len(C) THEN [pc |-> "C_solve", i |-> ii + 1, j |-> 1]
    ELSE [pc |-> "finish", i |-> ii, j |-> jj]

\* the loops of lines 391-393: the next (i, j), or the end of the loops
CAdvance(C, ii, jj) ==
    IF jj < Len(C[ii]) THEN [pc |-> "C_solve", i |-> ii, j |-> jj + 1]
    ELSE IF ii < Len(C) THEN [pc |-> "C_solve", i |-> ii + 1, j |-> 1]
    ELSE [pc |-> "finish", i |-> ii, j |-> jj]

(***************************************************************************)
(* getvarsens                                                              *)
(*                                                                         *)
(* yA and yB are sequences of sample rows, a row a sequence of one value   *)
(* per observable; yC holds one such array per parameter.                  *)
(***************************************************************************)
\* y[:, o]: the values of observable o over the samples
Column(y, o) == [r \in 1..Len(y) |-> y[r][o]]
\* x * y, elementwise
Times(x, y) == [r \in 1..Len(x) |-> RMul(x[r], y[r])]
\* numpy.average(x)
average(x) == RDiv(RSum(x), R(Len(x)))
\* the deviations of x from m, squared
SqDev(x, m) == [r \in 1..Len(x) |-> RSq(RSub(x[r], m))]

\* numpy.var(x), the population variance
numpy_var_Population(x) == RDiv(RSum(SqDev(x, average(x))), R(Len(x)))

\* numpy.var(x, ddof=1)
numpy_var(x) == RDiv(RSum(SqDev(x, average(x))), R(Len(x) - 1))

\* line 480: Sens[i], for observable o
SensEntry(yA_, yB_, yCk, nsamples, o) ==
    RDiv(RSub(RDiv(RSum(Times(Column(yA_, o), Column(yCk, o))), R(nsamples - 1)),
              average(Times(Column(yA_, o), Column(yB_, o)))),
         numpy_var(Column(yA_, o)))

\* line 481: SensT[i], for observable o
SensTEntry(yB_, yCk, nsamples, o) ==
    RSub(R(1),
         RDiv(RSub(RDiv(RSum(Times(Column(yB_, o), Column(yCk, o))), R(nsamples - 1)),
                   RSq(average(Column(yB_, o)))),
              numpy_var(Column(yB_, o))))

\* getvarsens(yA, yB, yC): the pair (Sens, SensT)
getvarsens(yA_, yB_, yC_) ==
    LET nparms == Len(yC_)
        nsamples == Len(yC_[1])
        nobs == Len(yC_[1][1])
    IN  [Sens |-> [k \in 1..nparms |-> [o \in 1..nobs |->
                      SensEntry(yA_, yB_, yC_[k], nsamples, o)]],
         SensT |-> [k \in 1..nparms |-> [o \in 1..nobs |->
                      SensTEntry(yB_, yC_[k], nsamples, o)]]]

(***************************************************************************)
(* Specification of the environment: odeinit, then odesolve calls with     *)
(* any arguments, between which the model's initial-condition parameter    *)
(* may be given another value (set_initial_params).                        *)
(***************************************************************************)
\* values tried at each position of a parameter vector; 16777217 = 2^24 + 1
\* is the smallest positive integer that is no single precision number
SlotVals(pos) ==
    IF pos = 1 THEN {1, 2} ELSE IF pos = 2 THEN {3} ELSE {3, 16777217}
AllSlotVals == UNION {SlotVals(pos) : pos \in 1..NumParams}
\* the useparams arguments tried
UseParamsChoices == {None, Given(<<1>>), Given(<<3, 2>>)}
\* the parameter vectors tried with a useparams argument
ParamVectors(useparams) ==
    IF useparams.none
    THEN {v \in [1..NumParams -> AllSlotVals] :
             \A n \in 1..NumParams : v[n] \in SlotVals(n)}
         \cup [1..1 -> SlotVals(1)]
    ELSE {v \in [1..Len(useparams.idx) -> AllSlotVals] :
             \A n \in 1..Len(useparams.idx) : v[n] \in SlotVals(useparams.idx[n])}
\* values set_initial_params gives the initial-condition parameter
IcValues == {4, 6}
\* time horizon of the calls (odesolve's tfinal argument)
OdeTFinal == 3

NoRet == [xyobs |-> <<>>, xout |-> <<>>, yout |-> <<>>, yobs |-> <<>>]

GenIdle ==
    /\ sobmtxA = <<>>
    /\ sobmtxB = <<>>
    /\ sobmtxC = <<>>
    /\ gpc = "idle"

OdeIdle ==
    /\ hist = <<>>
    /\ ret = NoRet

CmpIdle ==
    /\ xparray = <<>>
    /\ simarray = <<>>
    /\ cpairs = <<>>
    /\ cvardata = FALSE
    /\ ci = 0
    /\ objout = <<>>
    /\ cpc = "idle"
    /\ cerr = "none"
    /\ cdivisor = <<>>
    /\ ccall = 0
    /\ cfirst = <<>>
    /\ cxp0 = <<>>
    /\ csim0 = <<>>
    /\ cvar = -1
    /\ cvisited = <<>>

SensIdle ==
    /\ vyA = <<>>
    /\ vyB = <<>>
    /\ vyC = <<>>
    /\ vpc = "idle"
    /\ Sens = <<>>
    /\ SensT = <<>>

ConcIdle ==
    /\ targs = <<>>
    /\ tpc = <<>>
    /\ tn = <<>>
    /\ tyout = <<>>
    /\ tread = <<>>
    /\ pwriter = <<>>

OrdIdle ==
    /\ odone = {}
    /\ oexpect = {}

\* no component: a local nothing has been assigned to, or a rate left out
NoComponent == [type |-> "None", name |-> "", value |-> 0]

MacroIdle ==
    /\ rule_prefix = ""
    /\ rule_expression = <<>>
    /\ klist = <<>>
    /\ ksuffixes = <<>>
    /\ mpc = "idle"
    /\ mmodel = {}
    /\ r_name = ""
    /\ k1 = NoComponent
    /\ k2 = NoComponent
    /\ params_created = {}
    /\ rule = NoComponent
    /\ components = {}
    /\ merr = "none"

FileIdle ==
    /\ fout = <<>>
    /\ wparms = 0
    /\ imax = 0
    /\ jmax = 0
    /\ wpc = "idle"
    /\ wi = 0
    /\ wj = 0

LogIdle ==
    /\ sobolarr = <<>>
    /\ lparams = <<>>
    /\ omag = 0
    /\ luseparams = {}
    /\ usemag = [none |-> TRUE]
    /\ ub = <<>>
    /\ lb = <<>>
    /\ li = 0
    /\ sobprmarr = <<>>
    /\ lpc = "idle"
    /\ lerr = "none"

VaryIdle ==
    /\ sobvals_scaled = <<>>
    /\ knockouts = 0
    /\ kparams = <<>>
    /\ kmodel = <<>>
    /\ pfile = <<>>
    /\ ofile = <<>>
    /\ ki = 0
    /\ kchosen = <<>>
    /\ kpc = "idle"
    /\ kerr = "none"

TableIdle ==
    /\ kmatrix = <<>>
    /\ kf = NoComponent
    /\ brow = 0
    /\ bcol = 0
    /\ bcomponents = {}
    /\ bmodel = {}
    /\ bpc = "idle"
    /\ berr = "none"

CatIdle ==
    /\ cklist = <<>>
    /\ sites_ok = TRUE
    /\ zcomponents = {}
    /\ zmodel = {}
    /\ zpc = "idle"
    /\ zerr = "none"

PoreIdle ==
    /\ pmacro = ""
    /\ min_size = 0
    /\ max_size = 0
    /\ ktable = <<>>
    /\ psize = 0
    /\ pore_free = <<>>
    /\ pore_bound = <<>>
    /\ pc_complex = <<>>
    /\ pcomponents = {}
    /\ pmodel = {}
    /\ ppc = "idle"
    /\ perr = "none"

PmIdle ==
    /\ args = <<>>
    /\ pc = "idle"
    /\ i = 0
    /\ j = 0
    /\ yA = <<>>
    /\ yB = <<>>
    /\ yC = <<>>
    /\ outlist = <<>>
    /\ outlistnorm = <<>>
    /\ err = "none"
    /\ handed = <<>>
    /\ nsolve = 0
    /\ ncompare = 0
    /\ nobj = 0

EnvInit ==
    /\ pvalue = ParamNominal
    /\ p = odeinit_p(ParamNominal)
    /\ yzero = odeinit_yzero(ParamNominal)

OdeInit == GenIdle /\ EnvInit /\ OdeIdle /\ PoreIdle /\ CatIdle /\ TableIdle /\ VaryIdle /\ LogIdle /\ FileIdle /\ MacroIdle /\ OrdIdle /\ ConcIdle /\ SensIdle /\ CmpIdle /\ PmIdle

\* odesolve(model, tfinal, envlist, params, useparams, tinit, ic)
OdeSolveCall ==
    /\ Len(hist) < MaxCalls
    /\ \E useparams \in UseParamsChoices, flag \in BOOLEAN :
         \E params \in ParamVectors(useparams) :
            LET env == odesolve_env(p, yzero, pvalue, params, useparams, flag)
            IN  /\ p' = env.p
                /\ yzero' = env.yzero
                /\ ret' = odesolve_out(env.p, env.yzero, 0, OdeTFinal)
                /\ hist' = Append(hist, [params |-> params, useparams |-> useparams,
                                         ic |-> flag, pbefore |-> p,
                                         yzbefore |-> yzero, pvalue |-> pvalue])
    /\ UNCHANGED <<pvalue>>
    /\ UNCHANGED <<genVars, cmpVars, pmVars, sensVars, concVars, ordVars, macroVars, fileVars, logVars, varyVars, tableVars, catVars, poreVars>>

\* set_initial_params(model, {name: value}) between two solves
SetInitialParams ==
    /\ Len(hist) < MaxCalls
    /\ \E v \in IcValues :
          /\ v # pvalue[initial_conditions[1].ic_param]
          /\ pvalue' = [pvalue EXCEPT ![initial_conditions[1].ic_param] = v]
    /\ UNCHANGED <<p, yzero>>
    /\ UNCHANGED <<genVars, odeVars, cmpVars, pmVars, sensVars, concVars, ordVars, macroVars, fileVars, logVars, varyVars, tableVars, catVars, poreVars>>

OdeNext == OdeSolveCall \/ SetInitialParams

SpecOde == OdeInit /\ [][OdeNext]_vars

(***************************************************************************)
(* Specification of compare_data called on its own: the arguments are      *)
(* drawn in Init, CmpPairing runs one iteration of the loop over the       *)
(* pairings and CmpReturn returns the objectives.                          *)
(***************************************************************************)
\* experimental time points: on the simulated grid, between its points and
\* before its first point
XpTimes == {<<R(1), R(3)>>, <<R(0), Norm(5, 2)>>}
\* experimental rows: a measurement, then a measurement or its variance
XpRow1 == {<<R(2), R(4)>>, <<R(0), R(2)>>, <<R(0), R(0)>>}
XpRow2 == {<<R(1), R(2)>>, <<R(1), R(0)>>}
\* and an array with a single time point
XpArrays ==
    {<<t, r1, r2>> : t \in XpTimes, r1 \in XpRow1, r2 \in XpRow2}
    \cup {<< <<R(1)>>, <<R(2)>>, <<R(1)>> >>}
\* pairing entries: well formed, a list, a tuple of three
GoodPairs == {Tuple(<<1, 1>>), Tuple(<<2, 2>>), Tuple(<<1, 2>>)}
BadPairs == {List(<<1, 1>>), Tuple(<<1, 1, 1>>)}
PairLists(Entries) == UNION {[1..n -> Entries] : n \in 1..MaxPairs}
\* simulated arrays: what odesolve returns for some parameter vectors
SimParams == {<<1, 2, 4>>}
SimArrays ==
    {odesolve_out(odeinit_p(v), odeinit_yzero(ParamNominal), t0, 4).xyobs :
        v \in SimParams, t0 \in {0, 1}}

CmpInit ==
    /\ GenIdle /\ EnvInit /\ OdeIdle /\ PoreIdle /\ CatIdle /\ TableIdle /\ VaryIdle /\ LogIdle /\ FileIdle /\ MacroIdle /\ OrdIdle /\ ConcIdle /\ SensIdle /\ PmIdle
    /\ xparray \in XpArrays
    /\ simarray \in SimArrays
    /\ cpairs \in PairLists(GoodPairs \cup BadPairs)
    /\ cvardata \in BOOLEAN
    /\ ci = 1
    /\ objout = <<>>
    /\ cpc = "loop"
    /\ cerr = "none"
    /\ cdivisor = <<>>
    /\ ccall = 1
    /\ cfirst = <<>>
    /\ cxp0 = xparray
    /\ csim0 = simarray
    /\ cvar = -1
    /\ cvisited = <<>>

\* the body keeping the index the clamping loop left, when it names an entry
LoopIndex_FromVariable(pos, var) ==
    IF var \in 0..(Len(cpairs) - 1) THEN var ELSE pos - 1

\* for i in range(len(xspairlist)): the value the range iterator, at its
\* position pos, binds i to, whatever i held
LoopIndex(pos, var) == pos - 1

\* for i in range(len(objarray)): the value the clamping loop leaves in i
ClampLoopEnd(var, n) == IF n > 0 THEN n - 1 ELSE var

\* one iteration of "for i in range(len(xspairlist))"
CmpPairing ==
    /\ cpc = "loop"
    /\ ci <= Len(cpairs)
    /\ \E idx \in {LoopIndex(ci, cvar)} :
       \E it \in {CmpIteration(xparray, simarray, cpairs[idx + 1], cvardata)} :
           /\ cvisited' = Append(cvisited, idx)
           /\ IF it.err # "none"
              THEN /\ cpc' = "raised"
                   /\ cerr' = it.err
                   /\ cvar' = idx
                   /\ UNCHANGED <<ci, objout, cdivisor, xparray, simarray>>
              ELSE /\ objout' = Append(objout, it.obj)
                   /\ cdivisor' = divisor(xparray, cpairs[idx + 1].elems[1], cvardata)
                   /\ \E after \in {ArraysAfter(xparray, simarray, cpairs[idx + 1], cvardata)} :
                          xparray' = after.xp /\ simarray' = after.sim
                   /\ cvar' = ClampLoopEnd(idx, Len(xparray[1]))
                   /\ ci' = ci + 1
                   /\ UNCHANGED <<cpc, cerr>>
    /\ UNCHANGED <<cpairs, cvardata, ccall, cfirst, cxp0, csim0>>
    /\ UNCHANGED <<genVars, envVars, odeVars, pmVars, sensVars, concVars, ordVars, macroVars, fileVars, logVars, varyVars, tableVars, catVars, poreVars>>

\* return numpy.asarray(objout)
CmpReturn ==
    /\ cpc = "loop"
    /\ ci > Len(cpairs)
    /\ cpc' = "returned"
    /\ cfirst' = IF ccall = 1 THEN objout ELSE cfirst
    /\ UNCHANGED <<xparray, simarray, cpairs, cvardata, ci, objout, cerr,
                   cdivisor, ccall, cxp0, csim0, cvar, cvisited>>
    /\ UNCHANGED <<genVars, envVars, odeVars, pmVars, sensVars, concVars, ordVars, macroVars, fileVars, logVars, varyVars, tableVars, catVars, poreVars>>

\* the caller calls compare_data again with the arrays and arguments of
\* the call that returned
CmpAgain ==
    /\ cpc = "returned"
    /\ ccall < MaxRepeat
    /\ ccall' = ccall + 1
    /\ ci' = 1
    /\ objout' = <<>>
    /\ cdivisor' = <<>>
    /\ cvar' = -1
    /\ cvisited' = <<>>
    /\ cpc' = "loop"
    /\ UNCHANGED <<xparray, simarray, cpairs, cvardata, cerr, cfirst, cxp0, csim0>>
    /\ UNCHANGED <<genVars, envVars, odeVars, pmVars, sensVars, concVars, ordVars, macroVars, fileVars, logVars, varyVars, tableVars, catVars, poreVars>>

CmpNext == CmpPairing \/ CmpReturn \/ CmpAgain

SpecCmp == CmpInit /\ [][CmpNext]_vars

(***************************************************************************)
(* Specification of parmeval: the arguments are drawn in Init on an        *)
(* environment fresh from odeinit, C being genCmtx(A, B); every odesolve   *)
(* call and every compare_data call of the three loops is a step.          *)
(***************************************************************************)
\* the experimental data and the time horizon of a run
XpData == << <<R(1), R(3)>>, <<R(2), R(4)>>, <<R(1), R(2)>> >>
PmTime == 4
\* the pairing lists tried: one pairing per observable, a single pairing, a
\* list in place of a tuple, a tuple of three after a good entry, and more
\* pairings than observables
PmPairLists ==
    { <<Tuple(<<1, 1>>), Tuple(<<2, 2>>)>>,
      <<Tuple(<<1, 2>>)>>,
      <<List(<<1, 1>>)>>,
      <<Tuple(<<1, 1>>), Tuple(<<1, 1, 1>>)>>,
      <<Tuple(<<1, 1>>), Tuple(<<2, 2>>), Tuple(<<1, 2>>)>> }
\* the useparams arguments tried, and the rows of A and B that go with each
PmUseParams == {None, Given(<<2, 1>>)}
PmRows(useparams) ==
    IF useparams.none THEN {<<1, 2, 5>>, <<2, 1, 7>>} ELSE {<<1, 2>>, <<2, 2>>}
\* the second sample matrix takes, row by row, the row the first does not
OtherRow(useparams, row) == CHOOSE other \in PmRows(useparams) : other # row

PmInit ==
    /\ EnvInit /\ OdeIdle /\ PoreIdle /\ CatIdle /\ TableIdle /\ VaryIdle /\ LogIdle /\ FileIdle /\ MacroIdle /\ OrdIdle /\ ConcIdle /\ SensIdle /\ CmpIdle
    /\ gpc = "idle"
    /\ \E useparams \in PmUseParams, n \in 1..MaxSamples :
          /\ sobmtxA \in [1..n -> PmRows(useparams)]
          /\ sobmtxB = [r \in 1..n |-> OtherRow(useparams, sobmtxA[r])]
          /\ \E norm \in BOOLEAN, ic \in BOOLEAN, vardata \in BOOLEAN,
                fileobj \in BOOLEAN, pairs \in PmPairLists :
                args = [time |-> PmTime, xpdata |-> XpData, xspairlist |-> pairs,
                        ic |-> ic, norm |-> norm, vardata |-> vardata,
                        useparams |-> useparams, fileobj |-> fileobj]
    /\ sobmtxC = genCmtx(sobmtxA, sobmtxB)
    /\ pc = "call"
    /\ i = 1
    /\ j = 1
    /\ yA = <<>>
    /\ yB = <<>>
    /\ yC = <<>>
    /\ outlist = NoRet
    /\ outlistnorm = Unbound
    /\ err = "none"
    /\ handed = <<>>
    /\ nsolve = 0
    /\ ncompare = 0
    /\ nobj = 0

\* lines 361-363: the result arrays
ParmevalCall ==
    /\ pc = "call"
    /\ yA' = zeros(Len(sobmtxA))
    /\ yB' = zeros(Len(sobmtxB))
    /\ yC' = [k \in 1..Len(sobmtxC) |-> zeros(Len(sobmtxC[k]))]
    /\ pc' = "A_solve"
    /\ UNCHANGED <<args, i, j, outlist, outlistnorm, err, handed, nsolve, ncompare, nobj>>
    /\ UNCHANGED <<genVars, envVars, odeVars, cmpVars, sensVars, concVars, ordVars, macroVars, fileVars, logVars, varyVars, tableVars, catVars, poreVars>>

\* the solve integrating with the buffer as the call before left it
Solve_BufferBefore(row, nextpc) ==
    LET call == odesolve_call(row, args.time, args.useparams, args.ic)
    IN  \E env \in {odesolve_env(p, yzero, pvalue, call.params, call.useparams, call.ic)} :
        /\ p' = env.p
        /\ yzero' = env.yzero
        /\ outlist' = odesolve_out(p, env.yzero, call.tinit, call.tfinal)
        /\ nsolve' = nsolve + 1
        /\ pc' = nextpc
        /\ UNCHANGED <<args, i, j, yA, yB, yC, outlistnorm, err, handed, ncompare, nobj>>
        /\ UNCHANGED <<pvalue, genVars, odeVars, cmpVars, sensVars, concVars, ordVars, macroVars, fileVars, logVars, varyVars, tableVars, catVars, poreVars>>

\* outlist = odesolve(model, time, envlist, row, useparams, ic)
Solve(row, nextpc) ==
    LET call == odesolve_call(row, args.time, args.useparams, args.ic)
    IN  \E env \in {odesolve_env(p, yzero, pvalue, call.params, call.useparams, call.ic)} :
        /\ p' = env.p
        /\ yzero' = env.yzero
        /\ outlist' = odesolve_out(env.p, env.yzero, call.tinit, call.tfinal)
        /\ nsolve' = nsolve + 1
        /\ pc' = nextpc
        /\ UNCHANGED <<args, i, j, yA, yB, yC, outlistnorm, err, handed, ncompare, nobj>>
        /\ UNCHANGED <<pvalue, genVars, odeVars, cmpVars, sensVars, concVars, ordVars, macroVars, fileVars, logVars, varyVars, tableVars, catVars, poreVars>>

SolveA == pc = "A_solve" /\ err = "none" /\ Solve(sobmtxA[i], "A_cmp")
SolveB == pc = "B_solve" /\ err = "none" /\ Solve(sobmtxB[i], "B_cmp")
SolveC == pc = "C_solve" /\ err = "none" /\ Solve(sobmtxC[i][j], "C_cmp")

\* the rest of a loop body: which array compare_data is given, what it
\* returns or raises, and the row to store.  With norm the array is the
\* normalized outlist; without, loop A gives outlist[0] and loops B and C
\* give outlistnorm, which nothing has bound (lines 413 and 421)
Handed(loop, newnorm) ==
    IF ~args.norm /\ loop = "A" THEN outlist.xyobs ELSE newnorm

\* y[i] = compare_data(...), res being what compare_data returned or raised
Stored(res, newnorm, arg) ==
    [err |-> IF res.err # "none" THEN res.err ELSE AssignRow(res.objout).err,
     row |-> AssignRow(res.objout).row, outlistnorm |-> newnorm,
     handed |-> arg, calls |-> 1, nobj |-> Len(res.objout)]

ComparedWith(newnorm, arg) ==
    IF arg = Unbound
    THEN [err |-> "UnboundLocalError", row |-> <<>>, outlistnorm |-> newnorm,
          handed |-> handed, calls |-> 0, nobj |-> 0]
    ELSE Stored(compare_data(args.xpdata, arg, args.xspairlist, args.vardata),
                newnorm, arg)

\* newnorm is outlistnorm after lines 371-374, which run only with norm
ComparedNorm(loop, newnorm) == ComparedWith(newnorm, Handed(loop, newnorm))

Compared(loop) ==
    ComparedNorm(loop, IF args.norm THEN normalize(outlist.xyobs) ELSE outlistnorm)

CompareA ==
    /\ pc = "A_cmp" /\ err = "none"
    /\ \E c \in {Compared("A")} :
           /\ outlistnorm' = c.outlistnorm
           /\ handed' = c.handed
           /\ ncompare' = ncompare + c.calls
           /\ nobj' = nobj + c.nobj
           /\ err' = c.err
           /\ IF c.err # "none" THEN UNCHANGED <<yA, pc, i>>
              ELSE /\ yA' = [yA EXCEPT ![i] = c.row]
                   /\ IF i < Len(sobmtxA) THEN pc' = "A_solve" /\ i' = i + 1
                      ELSE pc' = "B_solve" /\ i' = 1
    /\ UNCHANGED <<args, j, yB, yC, outlist, nsolve>>
    /\ UNCHANGED <<genVars, envVars, odeVars, cmpVars, sensVars, concVars, ordVars, macroVars, fileVars, logVars, varyVars, tableVars, catVars, poreVars>>

CompareB ==
    /\ pc = "B_cmp" /\ err = "none"
    /\ \E c \in {Compared("B")} :
           /\ outlistnorm' = c.outlistnorm
           /\ handed' = c.handed
           /\ ncompare' = ncompare + c.calls
           /\ nobj' = nobj + c.nobj
           /\ err' = c.err
           /\ IF c.err # "none" THEN UNCHANGED <<yB, pc, i>>
              ELSE /\ yB' = [yB EXCEPT ![i] = c.row]
                   /\ IF i < Len(sobmtxB) THEN pc' = "B_solve" /\ i' = i + 1
                      ELSE pc' = "C_solve" /\ i' = 1
    /\ UNCHANGED <<args, j, yA, yC, outlist, nsolve>>
    /\ UNCHANGED <<genVars, envVars, odeVars, cmpVars, sensVars, concVars, ordVars, macroVars, fileVars, logVars, varyVars, tableVars, catVars, poreVars>>

CompareC ==
    /\ pc = "C_cmp" /\ err = "none"
    /\ \E c \in {Compared("C")}, nxt \in {CAdvance(sobmtxC, i, j)} :
           /\ outlistnorm' = c.outlistnorm
           /\ handed' = c.handed
           /\ ncompare' = ncompare + c.calls
           /\ nobj' = nobj + c.nobj
           /\ err' = c.err
           /\ IF c.err # "none" THEN UNCHANGED <<yC, pc, i, j>>
              ELSE /\ yC' = StoreC(yC, i, j, c.row)
                   /\ pc' = nxt.pc
                   /\ i' = nxt.i
                   /\ j' = nxt.j
    /\ UNCHANGED <<args, yA, yB, outlist, nsolve>>
    /\ UNCHANGED <<genVars, envVars, odeVars, cmpVars, sensVars, concVars, ordVars, macroVars, fileVars, logVars, varyVars, tableVars, catVars, poreVars>>

\* lines 424-430: with a file object, writetofile(fileobj, params, ...,
\* objout) names params and objout, which parmeval does not define; without,
\* return yA, yB, yC
ParmevalFinish ==
    /\ pc = "finish" /\ err = "none"
    /\ IF args.fileobj THEN err' = "NameError" /\ pc' = pc
       ELSE pc' = "returned" /\ err' = err
    /\ UNCHANGED <<args, i, j, yA, yB, yC, outlist, outlistnorm, handed, nsolve, ncompare, nobj>>
    /\ UNCHANGED <<genVars, envVars, odeVars, cmpVars, sensVars, concVars, ordVars, macroVars, fileVars, logVars, varyVars, tableVars, catVars, poreVars>>

Next ==
    \/ ParmevalCall
    \/ SolveA \/ CompareA
    \/ SolveB \/ CompareB
    \/ SolveC \/ CompareC
    \/ ParmevalFinish

Spec == PmInit /\ [][Next]_vars

(***************************************************************************)
(* Specification of genCmtx: the inputs are drawn in Init, GenCmtxCall     *)
(* applies the function.                                                   *)
(***************************************************************************)
GenInit ==
    /\ \E n \in 1..MaxN, np \in 1..MaxP :
          /\ sobmtxA \in Matrices(n, np, AVals)
          /\ sobmtxB \in Matrices(n, np, BVals)
    /\ sobmtxC = <<>>
    /\ gpc = "call"
    /\ EnvInit /\ OdeIdle /\ PoreIdle /\ CatIdle /\ TableIdle /\ VaryIdle /\ LogIdle /\ FileIdle /\ MacroIdle /\ OrdIdle /\ ConcIdle /\ SensIdle /\ CmpIdle /\ PmIdle

GenCmtxCall ==
    /\ gpc = "call"
    /\ sobmtxC' = genCmtx(sobmtxA, sobmtxB)
    /\ gpc' = "returned"
    /\ UNCHANGED <<sobmtxA, sobmtxB>>
    /\ UNCHANGED <<envVars, odeVars, cmpVars, pmVars, sensVars, concVars, ordVars, macroVars, fileVars, logVars, varyVars, tableVars, catVars, poreVars>>

GenNext == GenCmtxCall

SpecGen == GenInit /\ [][GenNext]_vars

(***************************************************************************)
(* Specification of getvarsens: the arrays are drawn in Init, with as many *)
(* rows in yA and yB as yC has samples; GetVarSensCall applies the         *)
(* function.                                                               *)
(***************************************************************************)
\* the objective rows of a sample, one value per observable
SensRows == {<<R(1), R(2)>>, <<R(2), R(1)>>, <<R(4), R(0)>>}
\* the arrays yB may be, given yA: yA in reverse order, or yA with each
\* row replaced by another
OtherSensRow(row) ==
    IF row = <<R(1), R(2)>> THEN <<R(2), R(1)>>
    ELSE IF row = <<R(2), R(1)>> THEN <<R(4), R(0)>> ELSE <<R(1), R(2)>>
SensSeconds(a) ==
    {[r \in 1..Len(a) |-> a[Len(a) + 1 - r]], [r \in 1..Len(a) |-> OtherSensRow(a[r])]}
\* the arrays yC[k] may be: yA, yB, or yA with its second observable from yB
SensMixes(a, b) ==
    {a, b, [r \in 1..Len(a) |-> <<a[r][1], b[r][2]>>]}

SensInit ==
    /\ GenIdle /\ EnvInit /\ OdeIdle /\ PoreIdle /\ CatIdle /\ TableIdle /\ VaryIdle /\ LogIdle /\ FileIdle /\ MacroIdle /\ OrdIdle /\ ConcIdle /\ CmpIdle /\ PmIdle
    /\ \E n \in 1..MaxSamples, np \in 1..MaxP :
          /\ vyA \in [1..n -> SensRows]
          /\ vyB \in SensSeconds(vyA)
          /\ vyC \in [1..np -> SensMixes(vyA, vyB)]
    /\ vpc = "call"
    /\ Sens = <<>>
    /\ SensT = <<>>

GetVarSensCall ==
    /\ vpc = "call"
    /\ \E res \in {getvarsens(vyA, vyB, vyC)} :
          /\ Sens' = res.Sens
          /\ SensT' = res.SensT
    /\ vpc' = "returned"
    /\ UNCHANGED <<vyA, vyB, vyC>>
    /\ UNCHANGED <<genVars, envVars, odeVars, cmpVars, pmVars, concVars, ordVars, macroVars, fileVars, logVars, varyVars, tableVars, catVars, poreVars>>

SensNext == GetVarSensCall

SpecSens == SensInit /\ [][SensNext]_vars

\* C1: for every parameter count p >= 1 and sample count n >= 1 the result
\* of genCmtx(A, B) has shape (p, n, p), and C[k][r][j] = A[r][k] when j = k
\* and C[k][r][j] = B[r][j] when j # k.
C1_GenCmtx ==
    gpc = "returned" =>
        LET n == Len(sobmtxA)
            np == Len(sobmtxA[1])
        IN  /\ Len(sobmtxC) = np
            /\ \A k \in 1..np :
                  /\ Len(sobmtxC[k]) = n
                  /\ \A r \in 1..n :
                        /\ Len(sobmtxC[k][r]) = np
                        /\ \A jj \in 1..np :
                              sobmtxC[k][r][jj] =
                                 IF jj = k THEN sobmtxA[r][k] ELSE sobmtxB[r][jj]

\* a returned C of the largest shape in which A and B differ in every entry
C1_Witness ==
    /\ gpc = "returned"
    /\ Len(sobmtxA) = MaxN
    /\ Len(sobmtxA[1]) = MaxP
    /\ \A r \in 1..MaxN : \A c \in 1..MaxP : sobmtxA[r][c] # sobmtxB[r][c]

(***************************************************************************)
(* Claims about parmeval (checked under Spec).                             *)
(***************************************************************************)
\* the loops in the order the code runs them
LoopRank ==
    CASE pc = "call" -> 0
      [] pc \in {"A_solve", "A_cmp"} -> 1
      [] pc \in {"B_solve", "B_cmp"} -> 2
      [] pc \in {"C_solve", "C_cmp"} -> 3
      [] OTHER -> 4

\* the iterations whose assignment to the result array has run
DoneA(r) == LoopRank > 1 \/ (LoopRank = 1 /\ r < i)
DoneB(r) == LoopRank > 2 \/ (LoopRank = 2 /\ r < i)
DoneC(k, r) == LoopRank > 3 \/ (LoopRank = 3 /\ (k < i \/ (k = i /\ r < j)))

ZeroRow == [o \in 1..NumObs |-> ZeroObjective]

\* the trajectory of one odesolve call made by parmeval with parameters row
\* on the environment odeinit built
TrajectoryOf(row) ==
    odesolve_out(SetParams(odeinit_p(pvalue), row, args.useparams),
                 odeinit_yzero(pvalue), Num(args.ic), args.time).xyobs

\* the comparator result for a trajectory, as the result arrays hold it
ComparatorRow(traj) ==
    AssignRow(compare_data(args.xpdata, traj, args.xspairlist, args.vardata).objout).row

ExpectedNorm(row) == ComparatorRow(normalize(TrajectoryOf(row)))
ExpectedRaw(row) == ComparatorRow(TrajectoryOf(row))

\* C2: with norm=True, when parmeval returns, yA[i] is the comparator result
\* of the normalized trajectory solved with A[i], yB[i] that of B[i] and
\* yC[k][j] that of C[k][j]; and at every moment of the run a slot whose
\* simulation has not been run yet still holds the zeros it was created with.
C2_Slots ==
    (args.norm /\ pc # "call") =>
        /\ Len(yA) = Len(sobmtxA) /\ Len(yB) = Len(sobmtxB) /\ Len(yC) = Len(sobmtxC)
        /\ \A r \in 1..Len(sobmtxA) : ~DoneA(r) => yA[r] = ZeroRow
        /\ \A r \in 1..Len(sobmtxB) : ~DoneB(r) => yB[r] = ZeroRow
        /\ \A k \in 1..Len(sobmtxC) : \A r \in 1..Len(sobmtxC[k]) :
              ~DoneC(k, r) => yC[k][r] = ZeroRow
        /\ pc = "returned" =>
              /\ \A r \in 1..Len(sobmtxA) : yA[r] = ExpectedNorm(sobmtxA[r])
              /\ \A r \in 1..Len(sobmtxB) : yB[r] = ExpectedNorm(sobmtxB[r])
              /\ \A k \in 1..Len(sobmtxC) : \A r \in 1..Len(sobmtxC[k]) :
                    yC[k][r] = ExpectedNorm(sobmtxC[k][r])

\* a returned run with norm=True over the most samples, one pairing per
\* observable, whose slots hold different, non-zero results
C2_Witness ==
    /\ args.norm /\ pc = "returned"
    /\ Len(sobmtxA) = MaxSamples
    /\ Len(args.xspairlist) = NumObs
    /\ yA[1] # yA[2]
    /\ yA[1] # yB[1]
    /\ yA[1][1] # yA[1][2]
    /\ yC[1][1] # yC[1][2]
    /\ yC[1][1] # yC[2][1]
    /\ \A r \in 1..Len(yA) : yA[r] # ZeroRow /\ yB[r] # ZeroRow

\* C3 as stated: with norm=False loops B and C run as loop A does: no name
\* is found unbound, yB[i] is the comparator result of the un-normalized
\* trajectory solved with B[i], yC[k][j] that of C[k][j], and the call
\* returns (yA, yB, yC).
C3_Original ==
    ~args.norm =>
        /\ err # "UnboundLocalError"
        /\ \A r \in 1..Len(yB) : (DoneB(r) /\ pc # "call") => yB[r] = ExpectedRaw(sobmtxB[r])
        /\ pc = "returned" =>
              \A k \in 1..Len(sobmtxC) : \A r \in 1..Len(sobmtxC[k]) :
                  yC[k][r] = ExpectedRaw(sobmtxC[k][r])

\* C4: a complete run of the loops over A and B of n rows and C of p x n
\* rows has issued exactly 2n + p*n odesolve calls, each followed by exactly
\* one compare_data call: the calls made never differ by more than the one
\* solve whose comparison is still to come.
C4_SolveCount ==
    /\ ncompare <= nsolve /\ nsolve <= ncompare + 1
    /\ (pc \in {"A_solve", "B_solve", "C_solve"} /\ err = "none") => ncompare = nsolve
    /\ (pc \in {"A_cmp", "B_cmp", "C_cmp"} /\ err = "none") => nsolve = ncompare + 1
    /\ pc \in {"finish", "returned"} =>
          /\ nsolve = 2 * Len(sobmtxA) + Len(sobmtxC) * Len(sobmtxA)
          /\ ncompare = nsolve

\* a complete run over the most samples and three parameters
C4_Witness ==
    /\ pc = "returned"
    /\ Len(sobmtxA) = MaxSamples
    /\ Len(sobmtxC) = NumParams
    /\ nsolve = 2 * MaxSamples + NumParams * MaxSamples
    /\ ncompare = nsolve

\* C5: with norm=True the array handed to compare_data has as row 0 the time
\* row the solve returned, its other rows are the min-max scaled observable
\* rows, and the solve's own output is as odesolve built it.
C5_TimeRow ==
    (args.norm /\ ncompare = nsolve /\ nsolve > 0) =>
        /\ Len(handed) = Len(outlist.xyobs)
        /\ handed[1] = outlist.xout
        /\ \A r \in 2..Len(handed) : handed[r] = scale(outlist.xyobs)[r]
        /\ outlist.xyobs = <<outlist.xout>> \o outlist.yobs
        /\ outlistnorm = handed

\* a comparison was made with norm=True on a trajectory whose time row the
\* scaling changes and whose observable rows it changes too
C5_Witness ==
    /\ args.norm /\ ncompare = nsolve /\ nsolve > 0
    /\ handed[1] # scale(outlist.xyobs)[1]
    /\ handed[2] # outlist.xyobs[2]
    /\ handed[3] # outlist.xyobs[3]

\* C6 as stated: when a pairing entry is not a tuple or not of length 2,
\* parmeval fails before any odesolve call has been issued and before any
\* objective of another pairing has been computed.
C6_Original ==
    err = "AssertionError" => (nsolve = 0 /\ nobj = 0)

(***************************************************************************)
(* Claims about odesolve (checked under SpecOde).                          *)
(***************************************************************************)
LastCall == hist[Len(hist)]

\* x is a single precision number
IsSingle(x) == Abs(x) % Granule(Abs(x), 1) = 0
\* x is v rounded to single precision: a single precision number at most
\* half a spacing away from v
IsRounded(x, v) == IsSingle(x) /\ 2 * Abs(x - v) <= Granule(Abs(v), 1)

\* the first step of the solve, computed from the model's equations with
\* each parameter name valued by the buffer position of its rank in
\* model.parameters
FirstStepByName(buf, y0, dt) ==
    LET val == [nm \in {ParamNames[n] : n \in 1..NumParams} |->
                   buf[CHOOSE n \in 1..NumParams : ParamNames[n] = nm]]
    IN  [e \in 1..odesize |->
            RAdd(y0[e],
                 RMul(dt, RSum([t \in 1..Len(odes[e]) |->
                                  RMul(R(odes[e][t].c * val[odes[e][t].k]),
                                       y0[odes[e][t].s])])))]

\* C7 as stated: with useparams omitted, buffer position i holds params[i]
\* for every i < len(params).
C7_Original ==
    (hist # <<>> /\ LastCall.useparams.none) =>
        \A n \in 1..Len(LastCall.params) : p[n] = LastCall.params[n]

\* C7, amended: with useparams omitted, buffer position i holds params[i]
\* rounded to single precision for every i < len(params), the positions
\* from len(params) on are left as they were, and the right-hand side
\* values the i-th entry of model.parameters with position i of the buffer.
C7_SetAllPositional ==
    (hist # <<>> /\ LastCall.useparams.none) =>
        /\ \A n \in 1..NumParams :
              IF n <= Len(LastCall.params)
              THEN IsRounded(p[n], LastCall.params[n])
              ELSE p[n] = LastCall.pbefore[n]
        /\ ret.yout[2] =
              FirstStepByName(p, ret.yout[1], RSub(ret.xout[2], ret.xout[1]))

\* a full-length vector was applied, and one of its values is no single
\* precision number
C7_Witness ==
    /\ hist # <<>>
    /\ LastCall.useparams.none
    /\ Len(LastCall.params) = NumParams
    /\ \E n \in 1..NumParams : p[n] # LastCall.params[n]
    /\ \E n \in 1..NumParams : p[n] # LastCall.pbefore[n]

\* the value the calls of h give position pos: that of the most recent call
\* naming it, the nominal one if none did
RECURSIVE LastNamed(_, _)
LastNamed(h, pos) ==
    IF h = <<>> THEN [named |-> FALSE, v |-> ParamNominal[pos]]
    ELSE LET c == h[Len(h)]
             hits == IF c.useparams.none
                     THEN {n \in 1..Len(c.params) : n = pos}
                     ELSE {n \in 1..Len(c.useparams.idx) : c.useparams.idx[n] = pos}
         IN  IF hits # {} THEN [named |-> TRUE, v |-> c.params[CHOOSE n \in hits : TRUE]]
             ELSE LastNamed(SubSeq(h, 1, Len(h) - 1), pos)

ClaimedTerm(exp_row, sim_row, t) ==
    LET time == xparray[1][t]
        resampled == splev(simarray[1], simarray[sim_row + 1], time)
        measured == xparray[exp_row + 1][t]
        variance == IF cvardata THEN xparray[exp_row + 2][t]
                    ELSE RMul(RMul(Norm(1, 10), measured), RMul(Norm(1, 10), measured))
        residual == RSub(resampled, measured)
    IN  RDiv(RMul(residual, residual), RMul(R(2), variance))

ClaimedTerms(q) ==
    [t \in 1..Len(xparray[1]) |-> ClaimedTerm(cpairs[q].elems[1], cpairs[q].elems[2], t)]

\* C10 as stated: the call returns one scalar per pairing, in pairing order,
\* entry q being the sum over all experimental time points of the term.
C10_Original ==
    cpc = "returned" =>
        /\ Len(objout) = Len(cpairs)
        /\ \A q \in 1..Len(cpairs) : objout[q] = Objective(RSum(ClaimedTerms(q)), 0)

\* C10, amended: the call returns one scalar per pairing, in pairing order,
\* entry q being the sum over all experimental time points of the term,
\* where a term that is infinite or NaN counts as 1e-100.
C10_Objective ==
    cpc = "returned" =>
        /\ Len(objout) = Len(cpairs)
        /\ \A q \in 1..Len(cpairs) :
              LET terms == ClaimedTerms(q)
                  finite == {t \in 1..Len(terms) : IsFinite(terms[t])}
              IN  /\ objout[q].eps = Len(terms) - Cardinality(finite)
                  /\ objout[q].v =
                        RSum([t \in 1..Len(terms) |->
                                 IF t \in finite THEN terms[t] ELSE R(0)])

\* two pairings were compared, with different objectives, the first one with
\* a term of zero variance and the second one without
C10_Witness ==
    /\ cpc = "returned"
    /\ Len(objout) = 2
    /\ objout[1].v # objout[2].v
    /\ objout[1].eps = 1
    /\ objout[2].eps = 0
    /\ objout[2].v # R(0)
    /\ cpairs[1].elems[1] # cpairs[1].elems[2]

\* the pairing of the last iteration that ran to its end
LastPairing == cpairs[ci - 1]

\* C11: the variance series of pairing (exp_row, sim_row) is experimental
\* row exp_row + 1 when vardata is true and (0.1 * experimental[exp_row])^2
\* pointwise otherwise, and the divisor is twice that variance.
C11_Variance ==
    cdivisor # <<>> =>
        /\ Len(cdivisor) = Len(xparray[1])
        /\ \A t \in 1..Len(cdivisor) :
              cdivisor[t] =
                 RMul(R(2),
                      IF cvardata THEN xparray[LastPairing.elems[1] + 2][t]
                      ELSE RSq(RMul(Norm(1, 10), xparray[LastPairing.elems[1] + 1][t])))

\* an iteration ran with vardata true on a variance row that differs from
\* the measurement row and from its default variance
C11_Witness ==
    /\ cdivisor # <<>>
    /\ cvardata
    /\ xparray[LastPairing.elems[1] + 2] # xparray[LastPairing.elems[1] + 1]
    /\ cdivisor # divisor(xparray, LastPairing.elems[1], FALSE)
    /\ \A t \in 1..Len(cdivisor) : cdivisor[t] # R(0)

\* every entry of the pairing is a tuple of two rows
WellFormed(pair) == pair.tuple /\ Len(pair.elems) = 2
\* the measurement row of a pairing is zero at every time point
ZeroMeasurement(pair) == \A t \in 1..Len(xparray[1]) : xparray[pair.elems[1] + 1][t] = R(0)

\* C12: every term that is infinite or NaN counts as 1e-100 in the sum, so
\* no objective is inf or NaN; with vardata false the call raises nothing
\* on well-formed pairings, and the objective of a pairing whose measurement
\* row is all zero is 1e-100 at every time point.
C12_Guard ==
    /\ \A q \in 1..Len(objout) :
          /\ IsFinite(objout[q].v)
          /\ (~cvardata /\ ZeroMeasurement(cpairs[q])) =>
                objout[q] = Objective(R(0), Len(xparray[1]))
    /\ (~cvardata /\ \A q \in 1..Len(cpairs) : WellFormed(cpairs[q])) => cerr = "none"

\* a call with vardata false returned two objectives, the first of a
\* measurement row that is all zero, the second of one that is not
C12_Witness ==
    /\ cpc = "returned"
    /\ ~cvardata
    /\ Len(objout) = 2
    /\ ZeroMeasurement(cpairs[1])
    /\ objout[1] = Objective(R(0), Len(xparray[1]))
    /\ objout[2].eps = 0

SampleCount == Len(vyC[1])
SumOver(x) == RSum(x)
MeanOver(x) == RDiv(RSum(x), R(Len(x)))
\* the variance with Bessel's correction: (sum x^2 - n * mean^2) / (n - 1)
BesselVar(x) ==
    RDiv(RSub(RSum(Times(x, x)), RMul(R(Len(x)), RSq(MeanOver(x)))), R(Len(x) - 1))

C15_Original ==
    vpc = "returned" =>
        \A k \in 1..Len(vyC) : \A o \in 1..Len(vyC[1][1]) :
            Sens[k][o] =
                RDiv(RSub(RDiv(SumOver(Times(Column(vyA, o), Column(vyC[k], o))),
                               R(SampleCount)),
                          RMul(MeanOver(Column(vyA, o)), MeanOver(Column(vyB, o)))),
                     BesselVar(Column(vyA, o)))

(***************************************************************************)
(* Specification of two odesolve calls sharing one environment: the calls  *)
(* run in two threads on the list odeinit returned, so data.p and yzero    *)
(* are the same objects in both.  A step is one store into data.p, the     *)
(* re-initialisation of yzero, the start of the integrator or one          *)
(* integration step, whose right-hand side reads data.p as it then is.     *)
(***************************************************************************)
Solvers == {1, 2}
OtherSolver(k) == 3 - k

\* the useparams arguments and parameter vectors of the two calls
ConcUseParams == {None, Given(<<1>>)}
ConcVectors(useparams) ==
    {v \in ParamVectors(useparams) : useparams.none => Len(v) = NumParams}

\* the number of iterations of the loop of lines 109-116
LoopLen(params, useparams) ==
    IF useparams.none THEN Len(params) ELSE Len(useparams.idx)
\* the buffer position iteration n of that loop stores into
SlotOf(useparams, n) == IF useparams.none THEN n ELSE useparams.idx[n]

\* the store landing one position further on
WriteSlot_Shifted(buf, params, useparams, n) ==
    [buf EXCEPT ![(SlotOf(useparams, n) % Len(buf)) + 1] = CFloat(params[n])]

\* data.p[i] = params[i], or data.p[useparams[i]] = params[i]
WriteSlot(buf, params, useparams, n) ==
    [buf EXCEPT ![SlotOf(useparams, n)] = CFloat(params[n])]

\* the buffer positions the compiled right-hand sides read
ReadSlots ==
    UNION {{rhs_exprs[e][n].pidx : n \in 1..Len(rhs_exprs[e])} : e \in 1..odesize}

\* one step of the integrator from the last point of yout: f is evaluated
\* with the buffer as it is at the time of the step
IntegratorStep(yout, buf, xout) ==
    LET n == Len(yout)
        dt == RSub(xout[n + 1], xout[n])
        yd == f(yout[n], buf)
    IN  [e \in 1..odesize |-> RAdd(yout[n][e], RMul(dt, yd[e]))]

ConcInit ==
    /\ GenIdle /\ EnvInit /\ OdeIdle /\ PoreIdle /\ CatIdle /\ TableIdle /\ VaryIdle /\ LogIdle /\ FileIdle /\ MacroIdle /\ OrdIdle /\ SensIdle /\ CmpIdle /\ PmIdle
    /\ \E u1 \in ConcUseParams, u2 \in ConcUseParams :
       \E v1 \in ConcVectors(u1), v2 \in ConcVectors(u2), f1 \in BOOLEAN, f2 \in BOOLEAN :
          targs = << [params |-> v1, useparams |-> u1, ic |-> f1],
                     [params |-> v2, useparams |-> u2, ic |-> f2] >>
    /\ tpc = [k \in Solvers |-> "params"]
    /\ tn = [k \in Solvers |-> 1]
    /\ tyout = [k \in Solvers |-> <<>>]
    /\ tread = [k \in Solvers |-> FALSE]
    /\ pwriter = [s \in 1..NumParams |-> 0]

\* lines 109-116, one iteration
ConcWrite(k) ==
    /\ tpc[k] = "params"
    /\ p' = WriteSlot(p, targs[k].params, targs[k].useparams, tn[k])
    /\ pwriter' = [pwriter EXCEPT ![SlotOf(targs[k].useparams, tn[k])] = k]
    /\ tn' = [tn EXCEPT ![k] = tn[k] + 1]
    /\ tpc' = [tpc EXCEPT ![k] =
                 IF tn[k] = LoopLen(targs[k].params, targs[k].useparams)
                 THEN "ic" ELSE "params"]
    /\ UNCHANGED <<pvalue, yzero, targs, tyout, tread>>
    /\ UNCHANGED <<genVars, odeVars, cmpVars, pmVars, sensVars, ordVars, macroVars, fileVars, logVars, varyVars, tableVars, catVars, poreVars>>

\* lines 125-128
ConcReinit(k) ==
    /\ tpc[k] = "ic"
    /\ yzero' = ReinitIcs(yzero, targs[k].ic, pvalue)
    /\ tpc' = [tpc EXCEPT ![k] = "odeint"]
    /\ UNCHANGED <<pvalue, p, targs, tn, tyout, tread, pwriter>>
    /\ UNCHANGED <<genVars, odeVars, cmpVars, pmVars, sensVars, ordVars, macroVars, fileVars, logVars, varyVars, tableVars, catVars, poreVars>>

\* line 136, odeint(f, yzero, xout): the integrator takes its initial state
ConcStart(k) ==
    /\ tpc[k] = "odeint"
    /\ tyout[k] = <<>>
    /\ tyout' = [tyout EXCEPT ![k] = <<yzero>>]
    /\ UNCHANGED <<pvalue, p, yzero, targs, tpc, tn, tread, pwriter>>
    /\ UNCHANGED <<genVars, odeVars, cmpVars, pmVars, sensVars, ordVars, macroVars, fileVars, logVars, varyVars, tableVars, catVars, poreVars>>

\* line 136: the integrator advances to the next output point, calling f
ConcStep(k) ==
    /\ tpc[k] = "odeint"
    /\ tyout[k] # <<>>
    /\ tyout' = [tyout EXCEPT ![k] =
                   Append(tyout[k],
                          IntegratorStep(tyout[k], p, linspace(0, OdeTFinal, nsteps)))]
    /\ tread' = [tread EXCEPT ![k] =
                   tread[k] \/ \E s \in ReadSlots : pwriter[s] = OtherSolver(k)]
    /\ tpc' = [tpc EXCEPT ![k] =
                 IF Len(tyout[k]) + 1 = nsteps THEN "done" ELSE "odeint"]
    /\ UNCHANGED <<pvalue, p, yzero, targs, tn, pwriter>>
    /\ UNCHANGED <<genVars, odeVars, cmpVars, pmVars, sensVars, ordVars, macroVars, fileVars, logVars, varyVars, tableVars, catVars, poreVars>>

ConcNext ==
    \E k \in Solvers :
        ConcWrite(k) \/ ConcReinit(k) \/ ConcStart(k) \/ ConcStep(k)

SpecConc == ConcInit /\ [][ConcNext]_vars

(***************************************************************************)
(* C16: two solves on one shared environment                               *)
(***************************************************************************)
\* what call k returns when it is the only call made on the environment
\* odeinit returned
AloneTrajectory(k) ==
    LET env == odesolve_env(odeinit_p(ParamNominal), odeinit_yzero(ParamNominal),
                            pvalue, targs[k].params, targs[k].useparams, targs[k].ic)
    IN  odesolve_out(env.p, env.yzero, 0, OdeTFinal).yout

\* C16: a solve that ran beside another one on the shared environment and
\* returned a trajectory other than the one it produces alone has had its
\* right-hand side evaluated with a buffer slot the other solve wrote: the
\* shared parameter buffer is the way the two calls disturb each other.
C16_SharedBuffer ==
    \A k \in DOMAIN tpc :
        (tpc[k] = "done" /\ tyout[k] # AloneTrajectory(k)) => tread[k]

\* C16: there is an interleaving in which a solve that sets every slot of
\* the buffer itself has its right-hand side evaluated with values the
\* other solve wrote and returns a trajectory other than the one it
\* produces alone.
C16_Witness ==
    \E k \in DOMAIN tpc :
        /\ tpc[k] = "done"
        /\ targs[k].useparams.none
        /\ tread[k]
        /\ tyout[k] # AloneTrajectory(k)

(***************************************************************************)
(* Specification of the loop iterations of parmeval run one after another  *)
(* in any order on the one environment: an iteration is the odesolve call  *)
(* of a row, the normalization, the compare_data call and the store into   *)
(* the row's slot.  The loop variables i and j name the iteration under    *)
(* way.                                                                    *)
(***************************************************************************)
\* the iterations of the three loops; for loop C, i is the parameter and j
\* the sample
OrdTasks ==
    {[loop |-> "A", i |-> r, j |-> 0] : r \in 1..Len(sobmtxA)}
    \cup {[loop |-> "B", i |-> r, j |-> 0] : r \in 1..Len(sobmtxB)}
    \cup UNION {{[loop |-> "C", i |-> k, j |-> r] : r \in 1..Len(sobmtxC[k])} :
                   k \in 1..Len(sobmtxC)}

\* the parameter vector of an iteration
TaskRow(task) ==
    IF task.loop = "A" THEN sobmtxA[task.i]
    ELSE IF task.loop = "B" THEN sobmtxB[task.i] ELSE sobmtxC[task.i][task.j]

\* the slot of an iteration in the result arrays
TaskSlot(task) ==
    IF task.loop = "A" THEN yA[task.i]
    ELSE IF task.loop = "B" THEN yB[task.i] ELSE yC[task.i][task.j]

\* the order in which the code runs the iterations
LoopNumber(loop) == IF loop = "A" THEN 1 ELSE IF loop = "B" THEN 2 ELSE 3
RunsBefore(a, b) ==
    \/ LoopNumber(a.loop) < LoopNumber(b.loop)
    \/ a.loop = b.loop /\ (a.i < b.i \/ (a.i = b.i /\ a.j < b.j))

\* the iteration the loop variables name
CurrentTask ==
    IF pc \in {"C_solve", "C_cmp"} THEN [loop |-> "C", i |-> i, j |-> j]
    ELSE [loop |-> IF pc \in {"A_solve", "A_cmp"} THEN "A" ELSE "B", i |-> i, j |-> 0]

\* what an iteration stores when it is the only one run on the environment
\* odeinit built, paired with the iteration; nothing for an iteration of
\* loops B and C without norm, which raises
AloneResult(task) ==
    IF ~args.norm /\ task.loop # "A" THEN {}
    ELSE {[task |-> task, row |-> ComparatorRow(given)] :
             given \in {IF args.norm THEN normalize(traj) ELSE traj :
                           traj \in {TrajectoryOf(TaskRow(task))}}}

\* the numbers of sample rows tried: with every parameter set by the rows
\* a single sample makes five iterations
OrdSamples(useparams) == IF useparams.none THEN {1} ELSE 1..MaxOrdSamples

\* the first sample matrices tried: the two rows taking turns
OrdMatrices(useparams, n) ==
    {[r \in 1..n |-> IF r % 2 = 1 THEN row ELSE OtherRow(useparams, row)] :
        row \in PmRows(useparams)}

OrdInit ==
    /\ EnvInit /\ OdeIdle /\ PoreIdle /\ CatIdle /\ TableIdle /\ VaryIdle /\ LogIdle /\ FileIdle /\ MacroIdle /\ ConcIdle /\ SensIdle /\ CmpIdle
    /\ gpc = "idle"
    /\ \E useparams \in PmUseParams :
       \E n \in OrdSamples(useparams) :
          /\ sobmtxA \in OrdMatrices(useparams, n)
          /\ sobmtxB = [r \in 1..n |-> OtherRow(useparams, sobmtxA[r])]
          /\ \E norm \in BOOLEAN :
                args = [time |-> PmTime, xpdata |-> XpData,
                        xspairlist |-> <<Tuple(<<1, 1>>), Tuple(<<2, 2>>)>>,
                        ic |-> TRUE, norm |-> norm, vardata |-> FALSE,
                        useparams |-> useparams, fileobj |-> FALSE]
    /\ sobmtxC = genCmtx(sobmtxA, sobmtxB)
    /\ pc = "call"
    /\ i = 1
    /\ j = 1
    /\ yA = <<>>
    /\ yB = <<>>
    /\ yC = <<>>
    /\ outlist = NoRet
    /\ outlistnorm = Unbound
    /\ err = "none"
    /\ handed = <<>>
    /\ nsolve = 0
    /\ ncompare = 0
    /\ nobj = 0
    /\ odone = {}
    /\ oexpect = UNION {AloneResult(task) : task \in OrdTasks}

\* lines 361-363: the result arrays
OrdCall ==
    /\ pc = "call"
    /\ yA' = zeros(Len(sobmtxA))
    /\ yB' = zeros(Len(sobmtxB))
    /\ yC' = [k \in 1..Len(sobmtxC) |-> zeros(Len(sobmtxC[k]))]
    /\ pc' = "pick"
    /\ UNCHANGED <<args, i, j, outlist, outlistnorm, err, handed, nsolve, ncompare, nobj>>
    /\ UNCHANGED <<genVars, envVars, odeVars, cmpVars, sensVars, concVars, ordVars, macroVars, fileVars, logVars, varyVars, tableVars, catVars, poreVars>>

\* the loop variables are set for an iteration that has not run yet
OrdPick ==
    /\ pc = "pick" /\ err = "none"
    /\ \E task \in OrdTasks \ odone :
          /\ pc' = IF task.loop = "A" THEN "A_solve"
                   ELSE IF task.loop = "B" THEN "B_solve" ELSE "C_solve"
          /\ i' = task.i
          /\ j' = IF task.loop = "C" THEN task.j ELSE j
    /\ UNCHANGED <<args, yA, yB, yC, outlist, outlistnorm, err, handed, nsolve, ncompare, nobj>>
    /\ UNCHANGED <<odone, oexpect>>
    /\ UNCHANGED <<genVars, envVars, odeVars, cmpVars, sensVars, concVars, macroVars, fileVars, logVars, varyVars, tableVars, catVars, poreVars>>

\* the rest of the loop body of the iteration under way
OrdCompare ==
    /\ pc \in {"A_cmp", "B_cmp", "C_cmp"} /\ err = "none"
    /\ \E c \in {Compared(CurrentTask.loop)} :
           /\ outlistnorm' = c.outlistnorm
           /\ handed' = c.handed
           /\ ncompare' = ncompare + c.calls
           /\ nobj' = nobj + c.nobj
           /\ err' = c.err
           /\ IF c.err # "none" THEN UNCHANGED <<yA, yB, yC, pc, odone>>
              ELSE /\ yA' = IF pc = "A_cmp" THEN [yA EXCEPT ![i] = c.row] ELSE yA
                   /\ yB' = IF pc = "B_cmp" THEN [yB EXCEPT ![i] = c.row] ELSE yB
                   /\ yC' = IF pc = "C_cmp" THEN StoreC(yC, i, j, c.row) ELSE yC
                   /\ odone' = odone \cup {CurrentTask}
                   /\ pc' = IF odone \cup {CurrentTask} = OrdTasks
                            THEN "finish" ELSE "pick"
    /\ UNCHANGED <<args, i, j, outlist, nsolve, oexpect>>
    /\ UNCHANGED <<genVars, envVars, odeVars, cmpVars, sensVars, concVars, macroVars, fileVars, logVars, varyVars, tableVars, catVars, poreVars>>

OrdNext ==
    \/ OrdCall
    \/ OrdPick
    \/ SolveA \/ SolveB \/ SolveC
    \/ OrdCompare
    \/ ParmevalFinish

SpecOrd == OrdInit /\ [][OrdNext]_vars

(***************************************************************************)
(* C17: no dependency between rows                                         *)
(***************************************************************************)
\* C17: with the loop iterations of parmeval run one after another in any
\* order on one environment, the slot of an iteration that has run holds
\* the row the iteration stores when it is the only one run on the
\* environment, a value depending on the row's parameter vector alone, and
\* the slot of an iteration that has not run holds its zeros; so a run that
\* returns returns the same yA, yB and yC whatever the order was.
C17_RowOnly ==
    pc \notin {"idle", "call"} =>
        \A task \in OrdTasks :
            /\ task \in odone => [task |-> task, row |-> TaskSlot(task)] \in oexpect
            /\ (task \in OrdTasks \ odone) => TaskSlot(task) = ZeroRow

\* C17: with a subset of the parameters set by the rows, an iteration has
\* run and stored its row, different from the zeros, while an iteration the
\* code runs before it has not run yet, and an iteration with another
\* parameter vector had run on the environment before
C17_Witness ==
    /\ args.norm
    /\ ~args.useparams.none
    /\ \E task \in odone, other \in OrdTasks \ odone, first \in odone :
          /\ RunsBefore(other, task)
          /\ TaskSlot(task) # ZeroRow
          /\ TaskRow(first) # TaskRow(task)
          /\ TaskSlot(first) # TaskSlot(task)

(***************************************************************************)
(* C18: the stored row and the pairing list                                *)
(***************************************************************************)
\* the vector compare_data returns for the normalized trajectory of a row
PairingVector(row) ==
    compare_data(args.xpdata, normalize(TrajectoryOf(row)),
                 args.xspairlist, args.vardata).objout

\* C18 as stated: for every pairing list the store of a comparator result
\* raises nothing and yA[i], yB[i] and yC[k][j], once stored, hold one entry
\* per pairing; when parmeval returns they are the vectors compare_data
\* returned for their simulations.
C18_Original ==
    /\ err # "ValueError"
    /\ (args.norm /\ pc # "call") =>
          /\ \A r \in 1..Len(sobmtxA) :
                DoneA(r) => Len(yA[r]) = Len(args.xspairlist)
          /\ \A r \in 1..Len(sobmtxB) :
                DoneB(r) => Len(yB[r]) = Len(args.xspairlist)
          /\ \A k \in 1..Len(sobmtxC) : \A r \in 1..Len(sobmtxC[k]) :
                DoneC(k, r) => Len(yC[k][r]) = Len(args.xspairlist)
          /\ pc = "returned" =>
                /\ \A r \in 1..Len(sobmtxA) : yA[r] = PairingVector(sobmtxA[r])
                /\ \A r \in 1..Len(sobmtxB) : yB[r] = PairingVector(sobmtxB[r])
                /\ \A k \in 1..Len(sobmtxC) : \A r \in 1..Len(sobmtxC[k]) :
                      yC[k][r] = PairingVector(sobmtxC[k][r])

(***************************************************************************)
(* macros._macro_rule                                                      *)
(*                                                                         *)
(* An element of klist is a Parameter object, a number or something else;  *)
(* a component of the model is a Parameter or a Rule.  Parameter and Rule  *)
(* are the constructors of pysb.core: a component they build is added to   *)
(* the current model under its name.                                       *)
(***************************************************************************)
\* Parameter(name, value)
Parameter(name, value) == [type |-> "Parameter", name |-> name, value |-> value]
\* a number, as isinstance(x, numbers.Real) finds it
Number(value) == [type |-> "Real", name |-> "", value |-> value]
\* a string, neither a Parameter nor a number
Text(text) == [type |-> "str", name |-> text, value |-> 0]
\* Rule(name, rule_expression, rate_forward, rate_reverse)
Rule(name, expr, forward, reverse) ==
    [type |-> "Rule", name |-> name, rule_expression |-> expr,
     rate_forward |-> forward, rate_reverse |-> reverse]
\* the current model after a component has been constructed
SelfExport(model, component) == model \cup {component}

\* '%s_%s' % (a, b)
Format(a, b) == a \o "_" \o b
\* _rule_name_generic: '%s_to_%s' % (lhs_label, rhs_label)
name_func(expr) == expr.lhs_label \o "_to_" \o expr.rhs_label

\* lines 154-160: the lengths of klist and ksuffixes do not fit the rule
ArityError(expr, rates, suffixes) ==
    IF ~expr.is_reversible THEN Len(rates) # 1 \/ Len(suffixes) # 1
    ELSE Len(rates) # 2 \/ Len(suffixes) # 2

\* all(isinstance(x, Parameter) for x in klist)
AllParameters(rates) == \A n \in 1..Len(rates) : rates[n].type = "Parameter"

\* a number anywhere in klist taken for a klist of numbers
AllNumbers_Any(rates) == \E n \in 1..Len(rates) : rates[n].type = "Real"

\* all(isinstance(x, numbers.Real) for x in klist)
AllNumbers(rates) == \A n \in 1..Len(rates) : rates[n].type = "Real"

\* the rule returned without the parameters made for it
ReturnedSet_RuleOnly(made, created) == {made}

\* ComponentSet([r]) | params_created
ReturnedSet(made, created) == {made} \cup created

(***************************************************************************)
(* Specification of _macro_rule: the arguments are drawn in Init, the      *)
(* current model holding the Parameter objects that may be passed; every   *)
(* statement is a step.  The suffixes are different strings and the names  *)
(* made from them are new to the model.                                    *)
(***************************************************************************)
\* the Parameter objects of the model before the call
ModelParameters == {Parameter("kf_0", 3), Parameter("kr_0", 5)}
\* the elements a klist is made of
RateElements == ModelParameters \cup {Number(1), Number(2), Text("k")}
\* the rule expressions: A >> B and A <> B
RuleExpressions ==
    {[is_reversible |-> rev, lhs_label |-> "A", rhs_label |-> "B"] : rev \in BOOLEAN}
\* the suffixes a ksuffixes list is made of, in order
SuffixNames == <<"kf", "kr", "kc", "kd", "ke">>

MacroInit ==
    /\ GenIdle /\ EnvInit /\ OdeIdle /\ PoreIdle /\ CatIdle /\ TableIdle /\ VaryIdle /\ LogIdle /\ FileIdle /\ ConcIdle /\ OrdIdle /\ SensIdle /\ CmpIdle /\ PmIdle
    /\ rule_prefix = "bind"
    /\ rule_expression \in RuleExpressions
    /\ \E n \in 0..MaxRates : klist \in [1..n -> RateElements]
    /\ \E n \in 0..MaxRates : ksuffixes = SubSeq(SuffixNames, 1, n)
    /\ mpc = "name"
    /\ mmodel = ModelParameters
    /\ r_name = ""
    /\ k1 = NoComponent
    /\ k2 = NoComponent
    /\ params_created = {}
    /\ rule = NoComponent
    /\ components = {}
    /\ merr = "none"

\* line 151
MacroName ==
    /\ mpc = "name"
    /\ r_name' = Format(rule_prefix, name_func(rule_expression))
    /\ mpc' = "arity"
    /\ UNCHANGED <<rule_prefix, rule_expression, klist, ksuffixes, mmodel,
                   k1, k2, params_created, rule, components, merr>>
    /\ UNCHANGED <<genVars, envVars, odeVars, cmpVars, pmVars, sensVars, concVars, ordVars, fileVars, logVars, varyVars, tableVars, catVars, poreVars>>

\* lines 154-160
MacroArity ==
    /\ mpc = "arity"
    /\ IF ArityError(rule_expression, klist, ksuffixes)
       THEN merr' = "ValueError" /\ mpc' = "raised"
       ELSE merr' = merr /\ mpc' = "types"
    /\ UNCHANGED <<rule_prefix, rule_expression, klist, ksuffixes, mmodel,
                   r_name, k1, k2, params_created, rule, components>>
    /\ UNCHANGED <<genVars, envVars, odeVars, cmpVars, pmVars, sensVars, concVars, ordVars, fileVars, logVars, varyVars, tableVars, catVars, poreVars>>

\* lines 162-166, 168 and 175-176: the kind of klist
MacroTypes ==
    /\ mpc = "types"
    /\ IF AllParameters(klist)
       THEN /\ k1' = klist[1]
            /\ k2' = IF rule_expression.is_reversible THEN klist[2] ELSE k2
            /\ mpc' = "rule"
            /\ merr' = merr
       ELSE IF AllNumbers(klist)
       THEN /\ mpc' = "k1"
            /\ UNCHANGED <<k1, k2, merr>>
       ELSE /\ merr' = "ValueError"
            /\ mpc' = "raised"
            /\ UNCHANGED <<k1, k2>>
    /\ UNCHANGED <<rule_prefix, rule_expression, klist, ksuffixes, mmodel,
                   r_name, params_created, rule, components>>
    /\ UNCHANGED <<genVars, envVars, odeVars, cmpVars, pmVars, sensVars, concVars, ordVars, fileVars, logVars, varyVars, tableVars, catVars, poreVars>>

\* lines 169-170
MacroK1 ==
    /\ mpc = "k1"
    /\ \E made \in {Parameter(Format(r_name, ksuffixes[1]), klist[1].value)} :
          /\ k1' = made
          /\ mmodel' = SelfExport(mmodel, made)
          /\ params_created' = {made}
    /\ mpc' = IF rule_expression.is_reversible THEN "k2" ELSE "rule"
    /\ UNCHANGED <<rule_prefix, rule_expression, klist, ksuffixes,
                   r_name, k2, rule, components, merr>>
    /\ UNCHANGED <<genVars, envVars, odeVars, cmpVars, pmVars, sensVars, concVars, ordVars, fileVars, logVars, varyVars, tableVars, catVars, poreVars>>

\* lines 171-174
MacroK2 ==
    /\ mpc = "k2"
    /\ \E made \in {Parameter(Format(r_name, ksuffixes[2]), klist[2].value)} :
          /\ k2' = made
          /\ mmodel' = SelfExport(mmodel, made)
          /\ params_created' = params_created \cup {made}
    /\ mpc' = "rule"
    /\ UNCHANGED <<rule_prefix, rule_expression, klist, ksuffixes,
                   r_name, k1, rule, components, merr>>
    /\ UNCHANGED <<genVars, envVars, odeVars, cmpVars, pmVars, sensVars, concVars, ordVars, fileVars, logVars, varyVars, tableVars, catVars, poreVars>>

\* lines 178-181
MacroRule ==
    /\ mpc = "rule"
    /\ \E made \in {Rule(r_name, rule_expression, k1,
                         IF rule_expression.is_reversible THEN k2 ELSE NoComponent)} :
          /\ rule' = made
          /\ mmodel' = SelfExport(mmodel, made)
    /\ mpc' = "return"
    /\ UNCHANGED <<rule_prefix, rule_expression, klist, ksuffixes,
                   r_name, k1, k2, params_created, components, merr>>
    /\ UNCHANGED <<genVars, envVars, odeVars, cmpVars, pmVars, sensVars, concVars, ordVars, fileVars, logVars, varyVars, tableVars, catVars, poreVars>>

\* line 184
MacroReturn ==
    /\ mpc = "return"
    /\ components' = ReturnedSet(rule, params_created)
    /\ mpc' = "returned"
    /\ UNCHANGED <<rule_prefix, rule_expression, klist, ksuffixes, mmodel,
                   r_name, k1, k2, params_created, rule, merr>>
    /\ UNCHANGED <<genVars, envVars, odeVars, cmpVars, pmVars, sensVars, concVars, ordVars, fileVars, logVars, varyVars, tableVars, catVars, poreVars>>

MacroNext ==
    \/ MacroName
    \/ MacroArity
    \/ MacroTypes
    \/ MacroK1
    \/ MacroK2
    \/ MacroRule
    \/ MacroReturn

SpecMacro == MacroInit /\ [][MacroNext]_vars

(***************************************************************************)
(* Claims about _macro_rule (checked under SpecMacro).                     *)
(***************************************************************************)
\* the number of rates the rule expression asks for
RatesAsked == IF rule_expression.is_reversible THEN 2 ELSE 1
\* the kinds of the elements of klist
RateKinds == {klist[n].type : n \in 1..Len(klist)}
\* the arguments the docstring allows
ArgumentsAllowed ==
    /\ Len(klist) = RatesAsked
    /\ Len(ksuffixes) = RatesAsked
    /\ RateKinds = {"Parameter"} \/ RateKinds = {"Real"}

\* C19: a call whose klist or ksuffixes has not the one element of a
\* unidirectional rule or the two of a reversible one, or whose klist is
\* not all Parameters or all numbers, ends in a ValueError and at no moment
\* of it has a Parameter or a Rule been made or added to the model; no
\* other call raises.
C19_Validation ==
    mpc # "idle" =>
        /\ ~ArgumentsAllowed =>
              /\ mpc \in {"name", "arity", "types", "raised"}
              /\ mmodel = ModelParameters
              /\ params_created = {}
              /\ rule = NoComponent
              /\ k1 = NoComponent /\ k2 = NoComponent
        /\ mpc = "raised" <=> merr = "ValueError"
        /\ mpc = "raised" => ~ArgumentsAllowed
        /\ merr \in {"none", "ValueError"}

\* C19: a reversible rule given two suffixes and a number beside a Parameter
\* has raised ValueError at the check of the kinds, with the model as it was
C19_Witness ==
    /\ mpc = "raised" /\ merr = "ValueError"
    /\ rule_expression.is_reversible
    /\ Len(klist) = 2 /\ Len(ksuffixes) = 2
    /\ klist[1].type = "Real" /\ klist[2].type = "Parameter"
    /\ mmodel = ModelParameters

\* the rule the call is to make
RuleAsked ==
    LET name == rule_prefix \o "_" \o rule_expression.lhs_label \o "_to_"
                   \o rule_expression.rhs_label
        rate(n) == IF RateKinds = {"Real"}
                   THEN Parameter(name \o "_" \o ksuffixes[n], klist[n].value)
                   ELSE klist[n]
    IN  [made |-> Rule(name, rule_expression, rate(1),
                       IF rule_expression.is_reversible THEN rate(2) ELSE NoComponent),
         rates |-> {rate(n) : n \in 1..RatesAsked}]

\* C20: the set a call returns is the set of the components the call added
\* to the model: the one Rule, named after the prefix and the expression,
\* and, for a klist of numbers, one Parameter per rate, named
\* '<rule name>_<suffix>' and holding the number; for a klist of Parameter
\* objects the Rule alone, the passed objects being its rates.
C20_Returned ==
    mpc = "returned" =>
        /\ components = mmodel \ ModelParameters
        /\ components = {RuleAsked.made} \cup
                        (IF RateKinds = {"Real"} THEN RuleAsked.rates ELSE {})
        /\ Cardinality(components) = IF RateKinds = {"Real"} THEN 1 + RatesAsked ELSE 1
        /\ RateKinds = {"Parameter"} =>
              /\ \A made \in components : made.rate_forward = klist[1]
              /\ \A n \in 1..Len(klist) : klist[n] \notin components

\* C20: a reversible rule with two numbers has returned the Rule and the
\* two Parameters made for it
C20_Witness ==
    /\ mpc = "returned"
    /\ rule_expression.is_reversible
    /\ RateKinds = {"Real"}
    /\ klist[1] # klist[2]
    /\ Cardinality(components) = 3
    /\ \E made \in components : made.name = "bind_A_to_B_kr" /\ made.value = klist[2].value

(***************************************************************************)
(* C25: the arguments parmeval gives odesolve                              *)
(***************************************************************************)
\* C25 as stated: once parmeval has solved, the grid of the last solve has
\* nsteps points, starts at 0 and ends at the time horizon, and the
\* re-initialisation flag odesolve received is parmeval's ic argument.
C25_Original ==
    nsolve > 0 =>
        /\ Len(outlist.xout) = nsteps
        /\ outlist.xout[1] = R(0)
        /\ outlist.xout[nsteps] = R(args.time)
        /\ odesolve_call(sobmtxA[1], args.time, args.useparams, args.ic).ic = args.ic

(***************************************************************************)
(* C29: parmeval with a file object                                        *)
(***************************************************************************)
\* C29 as stated: a run given a file object whose simulations are all done
\* raises nothing on the way to its return: it writes the record and
\* returns (yA, yB, yC).
C29_Original ==
    (args.fileobj /\ pc \in {"finish", "returned"}) => err = "none"

(***************************************************************************)
(* C27: the loop over the pairing list                                     *)
(***************************************************************************)
\* C27: the iterations of compare_data index the entries of the pairing
\* list in list order, each once, whatever the clamping loop left in i; one
\* objective has been appended per iteration that did not raise, and a call
\* that returns has visited every entry and returns as many objectives as
\* there are pairings.
C27_EveryPairing ==
    cpc # "idle" =>
        /\ cvisited = [n \in 1..Len(cvisited) |-> n - 1]
        /\ Len(cvisited) <= Len(cpairs)
        /\ Len(objout) = IF cpc = "raised" THEN Len(cvisited) - 1 ELSE Len(cvisited)
        /\ cpc = "returned" => Len(objout) = Len(cpairs)

\* C27: a call with two pairings and one experimental time point has
\* returned two objectives: the clamping loop of the first iteration left 0
\* in i, and the second iteration indexed entry 1
C27_Witness ==
    /\ cpc = "returned"
    /\ Len(cpairs) = 2
    /\ Len(xparray[1]) = 1
    /\ cvar = 0
    /\ cvisited = <<0, 1>>
    /\ Len(objout) = 2

(***************************************************************************)
(* writetofile                                                             *)
(*                                                                         *)
(* The file is the sequence of the pieces written to it: a header line     *)
(* (with its newline), a value (a parameter or a datum), the separator     *)
(* ", " or a newline.                                                      *)
(***************************************************************************)
\* what follows value n (0-based) of a run of count values wrapped at wrap:
\* lines 493-496 and 503-506
AfterValue(n, count, wrap) ==
    IF (n # 0 /\ n % wrap = 0) \/ n = count - 1 THEN "\n" ELSE ", "

(***************************************************************************)
(* Specification of writetofile: the sizes of simparms and simdata are     *)
(* drawn in Init; every write of the loops is a step.                      *)
(***************************************************************************)
WriteInit ==
    /\ GenIdle /\ EnvInit /\ OdeIdle /\ PoreIdle /\ CatIdle /\ TableIdle /\ VaryIdle /\ LogIdle /\ MacroIdle /\ OrdIdle /\ ConcIdle /\ SensIdle
    /\ CmpIdle /\ PmIdle
    /\ fout = <<>>
    /\ wparms \in 0..MaxParms
    /\ imax \in 1..MaxRows
    /\ jmax \in 1..MaxCols
    /\ wpc = "open"
    /\ wi = 0
    /\ wj = 0

\* lines 490-491
WriteOpen ==
    /\ wpc = "open"
    /\ fout' = fout \o <<"# TEMPERATURE", "# PARAMETERS">>
    /\ wpc' = IF wparms = 0 THEN "simdata" ELSE "parms"
    /\ UNCHANGED <<wparms, imax, jmax, wi, wj>>
    /\ UNCHANGED <<genVars, envVars, odeVars, cmpVars, pmVars, sensVars, concVars, ordVars, macroVars, logVars, varyVars, tableVars, catVars, poreVars>>

\* lines 492-496, one iteration
WriteParm ==
    /\ wpc = "parms"
    /\ fout' = fout \o <<"parameter", AfterValue(wi, wparms, 5)>>
    /\ IF wi + 1 < wparms THEN wi' = wi + 1 /\ wpc' = wpc
       ELSE wi' = 0 /\ wpc' = "simdata"
    /\ UNCHANGED <<wparms, imax, jmax, wj>>
    /\ UNCHANGED <<genVars, envVars, odeVars, cmpVars, pmVars, sensVars, concVars, ordVars, macroVars, logVars, varyVars, tableVars, catVars, poreVars>>

\* lines 498-506: the SIMDATA header before the first row, the header of a
\* row before its first value, and one iteration of the loop over j
WriteDatum ==
    /\ wpc = "simdata"
    /\ fout' = fout
               \o (IF wi = 0 /\ wj = 0 THEN <<"# SIMDATA">> ELSE <<>>)
               \o (IF wj = 0 THEN <<"# row">> ELSE <<>>)
               \o <<"datum", AfterValue(wj, jmax, 10)>>
    /\ IF wj + 1 < jmax THEN wj' = wj + 1 /\ UNCHANGED <<wi, wpc>>
       ELSE /\ wj' = 0
            /\ IF wi + 1 < imax THEN wi' = wi + 1 /\ wpc' = wpc
               ELSE wi' = wi /\ wpc' = "close"
    /\ UNCHANGED <<wparms, imax, jmax>>
    /\ UNCHANGED <<genVars, envVars, odeVars, cmpVars, pmVars, sensVars, concVars, ordVars, macroVars, logVars, varyVars, tableVars, catVars, poreVars>>

\* lines 507-508
WriteClose ==
    /\ wpc = "close"
    /\ fout' = Append(fout, "#----")
    /\ wpc' = "returned"
    /\ UNCHANGED <<wparms, imax, jmax, wi, wj>>
    /\ UNCHANGED <<genVars, envVars, odeVars, cmpVars, pmVars, sensVars, concVars, ordVars, macroVars, logVars, varyVars, tableVars, catVars, poreVars>>

WriteNext == WriteOpen \/ WriteParm \/ WriteDatum \/ WriteClose

SpecWrite == WriteInit /\ [][WriteNext]_vars

(***************************************************************************)
(* C23: the wrapping of the record                                         *)
(***************************************************************************)
RECURSIVE LongestLine(_, _, _, _, _)
\* the largest number of pieces named value on one line of the file: a line
\* ends with a newline or a header
LongestLine(file, value, n, onLine, longest) ==
    IF n > Len(file) THEN IF onLine > longest THEN onLine ELSE longest
    ELSE IF file[n] = value
         THEN LongestLine(file, value, n + 1, onLine + 1, longest)
    ELSE IF file[n] = ", "
         THEN LongestLine(file, value, n + 1, onLine, longest)
    ELSE LongestLine(file, value, n + 1, 0, IF onLine > longest THEN onLine ELSE longest)

\* C23 as stated: no line of the PARAMETERS block holds more than 5 values
\* and no line of a SIMDATA row more than 10; when writetofile returns the
\* last piece written is the separator line, and the piece before a header
\* or the separator line is never a value or a ", ".
C23_Original ==
    /\ LongestLine(fout, "parameter", 1, 0, 0) <= 5
    /\ LongestLine(fout, "datum", 1, 0, 0) <= 10
    /\ wpc = "returned" => fout[Len(fout)] = "#----"
    /\ \A n \in 2..Len(fout) :
          fout[n] \in {"# SIMDATA", "# row", "#----"} =>
              fout[n - 1] \notin {"parameter", "datum", ", "}

(***************************************************************************)
(* getlog                                                                  *)
(***************************************************************************)
RECURSIVE IntPow(_, _)
IntPow(base, n) == IF n = 0 THEN 1 ELSE base * IntPow(base, n - 1)

\* the n-th root of a natural number that has one
IntRoot(radicand, n) == CHOOSE root \in 0..radicand : IntPow(root, n) = radicand

\* the ** of two floats of numpy arrays, which is C's pow: pow(x, 0) is 1 for
\* every x, a NaN included; any other power of a NaN is a NaN; a positive
\* power of +-inf is inf, a fractional power of a negative number a NaN
Power(base, expo) ==
    IF expo[1] = 0 /\ expo[2] # 0 THEN R(1)
    ELSE IF IsNaN(base) \/ IsNaN(expo) THEN NaN
    ELSE IF IsInf(base) THEN Inf
    ELSE IF base[1] < 0 /\ expo[2] # 1 THEN NaN
    ELSE Norm(IntPow(IntRoot(Abs(base[1]), expo[2]), expo[1]),
              IntPow(IntRoot(base[2], expo[2]), expo[1]))

\* lines 283-288 with every index treated as outside useparams
Magnitude_Generic(n, featured, general, special) == general

\* lines 283-288: the order of magnitude used for index n (0-based)
Magnitude(n, featured, general, special) ==
    IF n \in featured THEN special.mag ELSE general

\* line 291: lb*(ub/lb)**sobolarr, element by element
LogMap(lower, upper, sample) ==
    [n \in 1..Len(sample) |->
        RMul(lower[n], Power(RDiv(upper[n], lower[n]), sample[n]))]

(***************************************************************************)
(* Specification of getlog: the arguments are drawn in Init, every         *)
(* iteration of the loop of lines 282-288 is a step, and so is the mapping *)
(* of line 291 with the return.                                            *)
(***************************************************************************)
\* the nominal values of the parameters and the sample values in [0,1)
LogValues == {R(0), R(2)}
SampleValues == {R(0), <<1, 2>>}
Magnitudes == {[none |-> TRUE]} \cup {[none |-> FALSE, mag |-> m] : m \in 1..MaxMag}

LogInit ==
    /\ GenIdle /\ EnvInit /\ OdeIdle /\ PoreIdle /\ CatIdle /\ TableIdle /\ VaryIdle /\ FileIdle /\ MacroIdle /\ OrdIdle /\ ConcIdle /\ SensIdle
    /\ CmpIdle /\ PmIdle
    /\ \E len \in 1..MaxLogParams :
        /\ lparams \in [1..len -> LogValues]
        /\ sobolarr \in [1..len -> SampleValues]
        /\ luseparams \in SUBSET (0..(len - 1))
        /\ ub = [n \in 1..len |-> R(0)]
        /\ lb = [n \in 1..len |-> R(0)]
    /\ omag \in 1..MaxMag
    /\ usemag \in Magnitudes
    /\ li = 0
    /\ sobprmarr = <<>>
    /\ lpc = "bounds"
    /\ lerr = "none"

\* lines 282-288: one iteration; pow(10, None) raises a TypeError
LogBound ==
    /\ lpc = "bounds"
    /\ li < Len(lparams)
    /\ IF li \in luseparams /\ usemag.none
       THEN /\ lpc' = "raised"
            /\ lerr' = "TypeError"
            /\ UNCHANGED <<ub, lb, li>>
       ELSE /\ \E factor \in {R(IntPow(10, Magnitude(li, luseparams, omag, usemag)))} :
                /\ ub' = [ub EXCEPT ![li + 1] = RMul(lparams[li + 1], factor)]
                /\ lb' = [lb EXCEPT ![li + 1] = RDiv(lparams[li + 1], factor)]
            /\ li' = li + 1
            /\ UNCHANGED <<lpc, lerr>>
    /\ UNCHANGED <<sobolarr, lparams, omag, luseparams, usemag, sobprmarr>>
    /\ UNCHANGED <<genVars, envVars, odeVars, cmpVars, pmVars, sensVars, concVars, ordVars, macroVars, fileVars, varyVars, tableVars, catVars, poreVars>>

\* lines 291-294
LogReturn ==
    /\ lpc = "bounds"
    /\ li = Len(lparams)
    /\ sobprmarr' = LogMap(lb, ub, sobolarr)
    /\ lpc' = "returned"
    /\ UNCHANGED <<sobolarr, lparams, omag, luseparams, usemag, ub, lb, li, lerr>>
    /\ UNCHANGED <<genVars, envVars, odeVars, cmpVars, pmVars, sensVars, concVars, ordVars, macroVars, fileVars, varyVars, tableVars, catVars, poreVars>>

LogNext == LogBound \/ LogReturn

SpecLog == LogInit /\ [][LogNext]_vars

\* the order of magnitude the mapping of index n (0-based) is to use
MagnitudeAsked(n) == IF n \in luseparams THEN usemag.mag ELSE omag

\* lb*(ub/lb)^u for the parameter of index n (1-based)
LogUniform(n) ==
    LET factor == R(IntPow(10, MagnitudeAsked(n - 1)))
        upper == RMul(lparams[n], factor)
        lower == RDiv(lparams[n], factor)
    IN  RMul(lower, Power(RDiv(upper, lower), sobolarr[n]))

NonZeroColumns ==
    \A n \in 1..Len(lparams) :
        lparams[n] # R(0) =>
            /\ sobprmarr[n] = LogUniform(n)
            /\ sobolarr[n] = R(0) =>
                   sobprmarr[n] = RDiv(lparams[n], R(IntPow(10, MagnitudeAsked(n - 1))))
            /\ sobolarr[n] = <<1, 2>> => sobprmarr[n] = lparams[n]

\* C24 as stated: getlog returns without raising with a NaN in the column
\* of every parameter whose nominal value is 0, whatever the sample value u
\* in [0,1), and with lb*(ub/lb)^u in the columns of the other parameters
C24_Original ==
    lpc = "returned" =>
        /\ lerr = "none"
        /\ \A n \in 1..Len(lparams) : lparams[n] = R(0) => IsNaN(sobprmarr[n])
        /\ NonZeroColumns

\* C24 amended: getlog returns without raising; the column of a parameter
\* whose nominal value is 0 holds a NaN for every sample value u in (0,1)
\* and holds 0 for u = 0; the columns of the other parameters hold
\* lb*(ub/lb)^u; the nominal value 0 never makes getlog raise
C24_ZeroParameter ==
    /\ lpc = "returned" =>
        /\ lerr = "none"
        /\ \A n \in 1..Len(lparams) :
            lparams[n] = R(0) =>
                IF sobolarr[n] = R(0) THEN sobprmarr[n] = R(0)
                ELSE IsNaN(sobprmarr[n])
        /\ NonZeroColumns
    /\ lpc = "raised" => usemag.none /\ luseparams # {}

\* C24 witness: getlog has returned for a parameter of nominal value 0 sampled
\* at u = 0, whose column holds 0, next to a non-zero parameter in useparams
\* whose order of magnitude differs from omag
C24_Witness ==
    /\ lpc = "returned"
    /\ \E n \in 1..Len(lparams) :
        lparams[n] = R(0) /\ sobolarr[n] = R(0) /\ sobprmarr[n] = R(0)
    /\ \E n \in 1..Len(lparams) :
        /\ lparams[n] # R(0)
        /\ (n - 1) \in luseparams
        /\ usemag.mag # omag

(***************************************************************************)
(* sample_vary_all                                                         *)
(*                                                                         *)
(* The dict params and model.parameters are the sequences of their values  *)
(* in the order of the keys, which is the order of param_names, of the     *)
(* header and of every row.  A csv file is the sequence of its rows.       *)
(***************************************************************************)
\* lines 587-589 with the entries that are 0 left as they are
Reassign_KeepZero(params, s) ==
    [k \in DOMAIN params |->
        IF k \in DOMAIN s /\ params[k] # R(0) THEN s[k] ELSE params[k]]

\* lines 587-589: for j in range(len(s)): params[param_names[j]] = s[j]
Reassign(params, s) ==
    [k \in DOMAIN params |-> IF k \in DOMAIN s THEN s[k] ELSE params[k]]

\* lines 591-593: for k in knockout_params: params[k] = 0
Knockout(params, knockout_params) ==
    [k \in DOMAIN params |-> IF k \in knockout_params THEN R(0) ELSE params[k]]

\* lines 526-529
set_parameters(model, params) ==
    [k \in DOMAIN model |-> IF k \in DOMAIN params THEN params[k] ELSE model[k]]

\* line 591: the results random.sample(params.keys(), knockouts) can give
RandomSample(population, k) == {chosen \in SUBSET population : Cardinality(chosen) = k}

\* lines 597-598: the row of final observable values of the model, which is
\* determined by the values of its parameters
FinalObservables(model) == [of |-> model]

(***************************************************************************)
(* Specification of sample_vary_all: the sampled vectors and knockouts are *)
(* drawn in Init; writing the headers, every iteration of the loop, and    *)
(* closing the files are steps.                                            *)
(***************************************************************************)
SampledValues == {R(0), R(2)}

VaryInit ==
    /\ GenIdle /\ EnvInit /\ OdeIdle /\ PoreIdle /\ CatIdle /\ TableIdle /\ LogIdle /\ FileIdle /\ MacroIdle /\ OrdIdle /\ ConcIdle
    /\ SensIdle /\ CmpIdle /\ PmIdle
    /\ \E numparam \in 1..MaxVaryParams, count \in 0..MaxVarySamples :
        /\ sobvals_scaled \in [1..count -> [1..numparam -> SampledValues]]
        /\ knockouts \in 0..(numparam + 1)
        /\ kparams = [k \in 1..numparam |-> R(1)]
        /\ kmodel = [k \in 1..numparam |-> R(1)]
    /\ pfile = <<>>
    /\ ofile = <<>>
    /\ ki = 0
    /\ kchosen = <<>>
    /\ kpc = "open"
    /\ kerr = "none"

\* lines 574-583
VaryHeaders ==
    /\ kpc = "open"
    /\ pfile' = <<[header |-> DOMAIN kparams]>>
    /\ ofile' = <<[header |-> "observables"]>>
    /\ kpc' = "loop"
    /\ UNCHANGED <<sobvals_scaled, knockouts, kparams, kmodel, ki, kchosen, kerr>>
    /\ UNCHANGED <<genVars, envVars, odeVars, cmpVars, pmVars, sensVars, concVars, ordVars, macroVars, fileVars, logVars, tableVars, catVars, poreVars>>

\* lines 585-598: one iteration; random.sample raises a ValueError when the
\* sample is larger than the population
VarySample ==
    /\ kpc = "loop"
    /\ ki < Len(sobvals_scaled)
    /\ \E assigned \in {Reassign(kparams, sobvals_scaled[ki + 1])} :
        IF knockouts > Len(assigned)
        THEN /\ kparams' = assigned
             /\ kpc' = "raised"
             /\ kerr' = "ValueError"
             /\ UNCHANGED <<kmodel, pfile, ofile, ki, kchosen>>
        ELSE \E knockout_params \in RandomSample(DOMAIN assigned, knockouts) :
             /\ kparams' = Knockout(assigned, knockout_params)
             /\ kmodel' = set_parameters(kmodel, kparams')
             /\ pfile' = Append(pfile, [values |-> kparams'])
             /\ ofile' = Append(ofile, FinalObservables(kmodel'))
             /\ kchosen' = Append(kchosen, knockout_params)
             /\ ki' = ki + 1
             /\ UNCHANGED <<kpc, kerr>>
    /\ UNCHANGED <<sobvals_scaled, knockouts>>
    /\ UNCHANGED <<genVars, envVars, odeVars, cmpVars, pmVars, sensVars, concVars, ordVars, macroVars, fileVars, logVars, tableVars, catVars, poreVars>>

\* lines 601-602
VaryClose ==
    /\ kpc = "loop"
    /\ ki = Len(sobvals_scaled)
    /\ kpc' = "closed"
    /\ UNCHANGED <<sobvals_scaled, knockouts, kparams, kmodel, pfile, ofile, ki, kchosen, kerr>>
    /\ UNCHANGED <<genVars, envVars, odeVars, cmpVars, pmVars, sensVars, concVars, ordVars, macroVars, fileVars, logVars, tableVars, catVars, poreVars>>

VaryNext == VaryHeaders \/ VarySample \/ VaryClose

SpecVary == VaryInit /\ [][VaryNext]_vars

\* each file holds its header row and one row for every sample so far, and
\* the parameter row of every sample is its sampled vector with exactly
\* knockouts distinct parameters, those chosen for the sample, replaced by 0;
\* the observation row is the one of the model holding these values
RowsWritten ==
    /\ Len(pfile) = 1 + ki
    /\ Len(ofile) = 1 + ki
    /\ "header" \in DOMAIN pfile[1] /\ "header" \in DOMAIN ofile[1]
    /\ \A row \in 1..ki :
        /\ Cardinality(kchosen[row]) = knockouts
        /\ kchosen[row] \subseteq DOMAIN kparams
        /\ pfile[row + 1] =
               [values |-> [k \in DOMAIN kparams |->
                               IF k \in kchosen[row] THEN R(0)
                               ELSE sobvals_scaled[row][k]]]
        /\ ofile[row + 1] = FinalObservables(pfile[row + 1].values)

\* C30 as stated: when knockouts <= number of parameters, each file holds one
\* header row and then exactly n rows, the parameter row of each sample is
\* its sampled vector with exactly knockouts distinct parameters replaced by
\* 0, and a parameter knocked out in one sample is zero in a later sample
\* only if it is chosen again
C30_Original ==
    /\ kpc \in {"loop", "closed"} => RowsWritten
    /\ kpc = "closed" => ki = Len(sobvals_scaled) /\ kerr = "none"
    /\ kpc = "raised" => knockouts > Len(kparams)
    /\ kpc \in {"loop", "closed"} =>
        \A earlier \in 1..ki, later \in 1..ki, k \in DOMAIN kparams :
            (earlier < later /\ k \in kchosen[earlier]
               /\ pfile[later + 1].values[k] = R(0)) => k \in kchosen[later]

\* C30 amended: as stated, except that a parameter knocked out in one sample
\* is zero in a later sample only if it is chosen again or the later sampled
\* vector itself holds 0 for it
C30_Reassigned ==
    /\ kpc \in {"loop", "closed"} => RowsWritten
    /\ kpc = "closed" => ki = Len(sobvals_scaled) /\ kerr = "none"
    /\ kpc = "raised" => knockouts > Len(kparams)
    /\ kpc \in {"loop", "closed"} =>
        \A earlier \in 1..ki, later \in 1..ki, k \in DOMAIN kparams :
            (earlier < later /\ k \in kchosen[earlier]
               /\ pfile[later + 1].values[k] = R(0)) =>
                   k \in kchosen[later] \/ sobvals_scaled[later][k] = R(0)

\* C30 witness: the files are closed after two samples; a parameter knocked
\* out in the first was not chosen in the second, whose row holds its
\* non-zero sampled value
C30_Witness ==
    /\ kpc = "closed"
    /\ ki = 2
    /\ knockouts = 1
    /\ \E k \in DOMAIN kparams :
        /\ k \in kchosen[1]
        /\ k \notin kchosen[2]
        /\ pfile[3].values[k] = sobvals_scaled[2][k]
        /\ pfile[3].values[k] # R(0)

(***************************************************************************)
(* _macro_rule as one call                                                 *)
(***************************************************************************)
\* lines 151-184 for the rule name r_name: the exception raised, the current
\* model after the call and the ComponentSet returned
MacroRuleCall(model, name, expr, rates, suffixes) ==
    IF ArityError(expr, rates, suffixes) \/ (~AllParameters(rates) /\ ~AllNumbers(rates))
    THEN [err |-> "ValueError", model |-> model, components |-> {}]
    ELSE LET created ==
                 IF AllParameters(rates) THEN <<>>
                 ELSE [n \in 1..Len(rates) |->
                          Parameter(Format(name, suffixes[n]), rates[n].value)]
             rate(n) == IF AllParameters(rates) THEN rates[n] ELSE created[n]
             made == Rule(name, expr, rate(1),
                          IF expr.is_reversible THEN rate(2) ELSE NoComponent)
             made_params == {created[n] : n \in DOMAIN created}
         IN  [err |-> "none",
              model |-> SelfExport(model \cup made_params, made),
              components |-> ReturnedSet(made, made_params)]

(***************************************************************************)
(* bind and bind_table                                                     *)
(*                                                                         *)
(* A cell of the kmatrix is None, a single kd or a (kf, kr) tuple.         *)
(***************************************************************************)
NoCell == [kind |-> "None"]
KdCell(kd) == [kind |-> "Real", kd |-> kd]
TupleCell(forward, reverse) == [kind |-> "tuple", klist |-> <<forward, reverse>>]
\* an object that is neither a Parameter nor a number
Expression == [type |-> "Expression", name |-> "", value |-> 0]

\* the species of the row and column headers
RowSpecies == <<"R1", "R2", "R3">>
ColSpecies == <<"C1", "C2", "C3", "C4">>

\* lines 336-337: s1(site1=None) + s2(site2=None) <> s1(site1=1) % s2(site2=1)
BindExpression(s1, s2) ==
    [is_reversible |-> TRUE, lhs_label |-> s1 \o "_" \o s2, rhs_label |-> s1 \o s2]
\* lines 329-333
bind_name_func(expr) == expr.lhs_label
\* lines 326-338, for sites the species have
bind(model, s1, s2, rates) ==
    MacroRuleCall(model, Format("bind", bind_name_func(BindExpression(s1, s2))),
                  BindExpression(s1, s2), rates, <<"kf", "kr">>)

\* line 463: kd*kf.  The product of two numbers is a number; pysb.core is
\* not part of these sources, and the product of a number and a Parameter
\* either raises a TypeError or is an object that is no Parameter
Product(kd, factor) ==
    IF factor.type = "Real" THEN {[err |-> "none", value |-> Number(kd * factor.value)]}
    ELSE {[err |-> "TypeError", value |-> NoComponent],
          [err |-> "none", value |-> Expression]}

(***************************************************************************)
(* Specification of bind_table: the table and kf are drawn in Init; the    *)
(* check of kf, every iteration of the loops and the return are steps.     *)
(***************************************************************************)
TableCells == {NoCell, KdCell(2), KdCell(3), TupleCell(Number(1), Number(2))}
SharedRates == {NoComponent, Number(5)} \cup {q \in ModelParameters : q.name = "kf_0"}

TableInit ==
    /\ GenIdle /\ EnvInit /\ OdeIdle /\ PoreIdle /\ CatIdle /\ VaryIdle /\ LogIdle /\ FileIdle /\ MacroIdle /\ OrdIdle
    /\ ConcIdle /\ SensIdle /\ CmpIdle /\ PmIdle
    /\ \E rows \in 1..MaxTableRows, cols \in 1..MaxTableCols :
        kmatrix \in [1..rows -> [1..cols -> TableCells]]
    /\ kf \in SharedRates
    /\ brow = 0
    /\ bcol = 0
    /\ bcomponents = {}
    /\ bmodel = ModelParameters
    /\ bpc = "check"
    /\ berr = "none"

\* lines 449-452
TableCheck ==
    /\ bpc = "check"
    /\ IF kf = NoComponent
          /\ \E r \in 1..Len(kmatrix) : \E c \in 1..Len(kmatrix[r]) :
                 kmatrix[r][c].kind = "Real"
       THEN bpc' = "raised" /\ berr' = "ValueError"
       ELSE bpc' = "loop" /\ berr' = berr
    /\ UNCHANGED <<kmatrix, kf, brow, bcol, bcomponents, bmodel>>
    /\ UNCHANGED <<genVars, envVars, odeVars, cmpVars, pmVars, sensVars, concVars, ordVars, macroVars, fileVars, logVars, varyVars, catVars, poreVars>>

\* lines 456-464: one iteration of the inner loop
TableCell ==
    /\ bpc = "loop"
    /\ brow < Len(kmatrix)
    /\ \E cell \in {kmatrix[brow + 1][bcol + 1]} :
       \E product \in (IF cell.kind = "Real" THEN Product(cell.kd, kf)
                       ELSE {[err |-> "none", value |-> NoComponent]}) :
         IF cell.kind = "None"
         THEN UNCHANGED <<bcomponents, bmodel, bpc, berr>>
         ELSE IF product.err # "none"
         THEN /\ bpc' = "raised"
              /\ berr' = product.err
              /\ UNCHANGED <<bcomponents, bmodel>>
         ELSE \E call \in {bind(bmodel, RowSpecies[brow + 1], ColSpecies[bcol + 1],
                                IF cell.kind = "Real" THEN <<kf, product.value>>
                                ELSE cell.klist)} :
              /\ bmodel' = call.model
              /\ IF call.err # "none"
                 THEN bpc' = "raised" /\ berr' = call.err /\ UNCHANGED bcomponents
                 ELSE /\ bcomponents' = bcomponents \cup call.components
                      /\ UNCHANGED <<bpc, berr>>
    /\ IF bcol + 1 < Len(kmatrix[brow + 1])
       THEN bcol' = bcol + 1 /\ brow' = brow
       ELSE bcol' = 0 /\ brow' = brow + 1
    /\ UNCHANGED <<kmatrix, kf>>
    /\ UNCHANGED <<genVars, envVars, odeVars, cmpVars, pmVars, sensVars, concVars, ordVars, macroVars, fileVars, logVars, varyVars, catVars, poreVars>>

\* line 466
TableReturn ==
    /\ bpc = "loop"
    /\ brow = Len(kmatrix)
    /\ bpc' = "returned"
    /\ UNCHANGED <<kmatrix, kf, brow, bcol, bcomponents, bmodel, berr>>
    /\ UNCHANGED <<genVars, envVars, odeVars, cmpVars, pmVars, sensVars, concVars, ordVars, macroVars, fileVars, logVars, varyVars, catVars, poreVars>>

TableNext == TableCheck \/ TableCell \/ TableReturn

SpecTable == TableInit /\ [][TableNext]_vars

\* the binding rules of the returned components made from the kd cells,
\* each with its kd
KdRules ==
    {[made |-> made, kd |-> kmatrix[r][c].kd] :
        <<made, r, c>> \in
            {choice \in bcomponents \X (1..Len(kmatrix)) \X (1..MaxTableCols + 1) :
                /\ choice[3] <= Len(kmatrix[choice[2]])
                /\ kmatrix[choice[2]][choice[3]].kind = "Real"
                /\ choice[1].type = "Rule"
                /\ choice[1].name = "bind_" \o RowSpecies[choice[2]] \o "_"
                                        \o ColSpecies[choice[3]]}}

\* C21 as stated: when bind_table has returned for a table of single kd
\* cells and a shared kf, every kd cell has its binding rule, all these
\* rules have one and the same Parameter object as forward rate, and the
\* reverse rate of each has the value kd*kf
C21_Original ==
    bpc = "returned" =>
        /\ \A r \in 1..Len(kmatrix) : \A c \in 1..Len(kmatrix[r]) :
              kmatrix[r][c].kind = "Real" =>
                 \E one \in KdRules :
                    one.made.name = "bind_" \o RowSpecies[r] \o "_" \o ColSpecies[c]
        /\ \A one \in KdRules, other \in KdRules :
              /\ one.made.rate_forward.type = "Parameter"
              /\ one.made.rate_forward = other.made.rate_forward
              /\ one.made.rate_reverse.value = one.kd * kf.value

(***************************************************************************)
(* catalyze                                                                *)
(***************************************************************************)
\* klist[a:b] for 0 <= a <= b
Slice(list, a, b) ==
    IF a >= Len(list) THEN <<>>
    ELSE SubSeq(list, a + 1, IF b < Len(list) THEN b ELSE Len(list))

\* lines 596-597: enzyme_free + substrate_free <> es_complex
BindingExpression == [is_reversible |-> TRUE, lhs_label |-> "E_S", rhs_label |-> "ES"]
\* lines 599-600: es_complex >> enzyme_free + product
CatalysisExpression == [is_reversible |-> FALSE, lhs_label |-> "ES", rhs_label |-> "E_P"]

(***************************************************************************)
(* Specification of catalyze: klist is drawn in Init, in a model that      *)
(* holds the Parameter objects it may contain; the verification of the     *)
(* sites, each of the two _macro_rule calls and the return are steps.      *)
(***************************************************************************)
CatInit ==
    /\ GenIdle /\ EnvInit /\ OdeIdle /\ PoreIdle /\ TableIdle /\ VaryIdle /\ LogIdle /\ FileIdle /\ MacroIdle
    /\ OrdIdle /\ ConcIdle /\ SensIdle /\ CmpIdle /\ PmIdle
    /\ \E n \in 0..MaxRates : cklist \in [1..n -> RateElements]
    /\ sites_ok \in BOOLEAN
    /\ zcomponents = {}
    /\ zmodel = ModelParameters
    /\ zpc = "verify"
    /\ zerr = "none"

\* lines 574-593: _verify_sites raises a ValueError for a missing site
CatalyzeVerify ==
    /\ zpc = "verify"
    /\ IF sites_ok THEN zpc' = "bind" /\ zerr' = zerr
       ELSE zpc' = "raised" /\ zerr' = "ValueError"
    /\ UNCHANGED <<cklist, sites_ok, zcomponents, zmodel>>
    /\ UNCHANGED <<genVars, envVars, odeVars, cmpVars, pmVars, sensVars, concVars, ordVars, macroVars, fileVars, logVars, varyVars, tableVars, poreVars>>

\* lines 596-598
CatalyzeBind ==
    /\ zpc = "bind"
    /\ \E call \in {MacroRuleCall(zmodel,
                        Format("bind", name_func(BindingExpression)),
                        BindingExpression, Slice(cklist, 0, 2), <<"kf", "kr">>)} :
        /\ zmodel' = call.model
        /\ IF call.err # "none"
           THEN zpc' = "raised" /\ zerr' = call.err /\ UNCHANGED zcomponents
           ELSE zpc' = "catalyze" /\ zerr' = zerr /\ zcomponents' = call.components
    /\ UNCHANGED <<cklist, sites_ok>>
    /\ UNCHANGED <<genVars, envVars, odeVars, cmpVars, pmVars, sensVars, concVars, ordVars, macroVars, fileVars, logVars, varyVars, tableVars, poreVars>>

\* lines 599-601: klist[2] raises an IndexError for a klist of two elements
CatalyzeCatalysis ==
    /\ zpc = "catalyze"
    /\ IF Len(cklist) < 3
       THEN zpc' = "raised" /\ zerr' = "IndexError" /\ UNCHANGED <<zcomponents, zmodel>>
       ELSE \E call \in {MacroRuleCall(zmodel,
                            Format("catalyze", name_func(CatalysisExpression)),
                            CatalysisExpression, <<cklist[3]>>, <<"kc">>)} :
            /\ zmodel' = call.model
            /\ IF call.err # "none"
               THEN zpc' = "raised" /\ zerr' = call.err /\ UNCHANGED zcomponents
               ELSE /\ zpc' = "return" /\ zerr' = zerr
                    /\ zcomponents' = zcomponents \cup call.components
    /\ UNCHANGED <<cklist, sites_ok>>
    /\ UNCHANGED <<genVars, envVars, odeVars, cmpVars, pmVars, sensVars, concVars, ordVars, macroVars, fileVars, logVars, varyVars, tableVars, poreVars>>

\* line 603
CatalyzeReturn ==
    /\ zpc = "return"
    /\ zpc' = "returned"
    /\ UNCHANGED <<cklist, sites_ok, zcomponents, zmodel, zerr>>
    /\ UNCHANGED <<genVars, envVars, odeVars, cmpVars, pmVars, sensVars, concVars, ordVars, macroVars, fileVars, logVars, varyVars, tableVars, poreVars>>

CatNext == CatalyzeVerify \/ CatalyzeBind \/ CatalyzeCatalysis \/ CatalyzeReturn

SpecCat == CatInit /\ [][CatNext]_vars

\* the rules of a set of components, and the parameters they use as rates
RulesOf(set) == {made \in set : made.type = "Rule"}
RatesOf(set) ==
    UNION {{made.rate_forward, made.rate_reverse} \ {NoComponent} : made \in RulesOf(set)}

\* C28 as stated: a call of catalyze either returns, having created the
\* reversible binding rule and the unidirectional catalysis rule in the
\* model with their parameters, or raises, and then the model holds no
\* Rule or Parameter that it did not hold before the call
C28_Original ==
    /\ zpc = "returned" =>
        /\ \E b \in RulesOf(zmodel), c \in RulesOf(zmodel) :
              /\ b.rule_expression = BindingExpression
              /\ c.rule_expression = CatalysisExpression
              /\ RulesOf(zmodel) = {b, c}
              /\ RulesOf(zcomponents) = {b, c}
        /\ RatesOf(zmodel) \subseteq zmodel
    /\ zpc = "raised" => zmodel = ModelParameters

(***************************************************************************)
(* pore_species, pore_transport and pore_bind                              *)
(*                                                                         *)
(* A site condition is a bond number, or 0 for None.  The subunit has the  *)
(* sites site1, site2 and sc_site; the cargo has the site c_site.          *)
(***************************************************************************)
\* subunit({site1: a, site2: b}) of a subunit whose sc_site is None
Subunit(a, b) ==
    [type |-> "MonomerPattern", monomer |-> "Unit",
     site_conditions |-> [site1 |-> a, site2 |-> b, sc_site |-> 0]]
\* cargo({c_site: a})
Cargo(a) ==
    [type |-> "MonomerPattern", monomer |-> "Cargo",
     site_conditions |-> [c_site |-> a]]
\* the operator % of pysb.core: the ComplexPattern of the monomer patterns of
\* both operands
ComplexOf(left, right) ==
    LET parts(pattern) == IF pattern.type = "ComplexPattern"
                          THEN pattern.monomer_patterns ELSE <<pattern>>
    IN  [type |-> "ComplexPattern", monomer_patterns |-> parts(left) \o parts(right),
         match_once |-> FALSE]

\* line 1105 with the bond of site2 not wrapped around
RingBond_Open(idx, size) == idx + 1

\* line 1105: the bond of site2 of subunit idx, i % size + 1
RingBond(idx, size) == (idx % size) + 1

\* lines 1104-1105: the loop from subunit idx on
RECURSIVE PoreLoop(_, _, _)
PoreLoop(pore, idx, size) ==
    IF idx > size THEN pore
    ELSE PoreLoop(ComplexOf(pore, Subunit(idx, RingBond(idx, size))), idx + 1, size)

\* lines 1093-1107
pore_species(size) ==
    IF size <= 0 THEN [type |-> "ValueError"]
    ELSE IF size = 1 THEN Subunit(0, 0)
    ELSE IF size = 2 THEN ComplexOf(Subunit(1, 0), Subunit(0, 1))
    ELSE [PoreLoop(Subunit(1, 2), 2, size) EXCEPT !.match_once = TRUE]

\* lines 1308-1322 and 1442-1456: '%s_%d_%s' of subunit, size and cargo
pore_rule_name(size) == "Unit_" \o ToString(size) \o "_Cargo"

(***************************************************************************)
(* Specification of pore_transport and pore_bind, which differ in the      *)
(* second rule and in the loop over the sizes: the arguments are drawn in  *)
(* Init; the checks before the loop, the pore_species call, the building   *)
(* of the pore:cargo complex, each _macro_rule call and the return are     *)
(* steps.                                                                  *)
(***************************************************************************)
PoreKLists ==
    {<<Number(1), Number(2), Number(3)>>,
     <<Parameter("kf_0", 3), Parameter("kr_0", 5), Parameter("kf_0", 3)>>}

PoreInit ==
    /\ GenIdle /\ EnvInit /\ OdeIdle /\ CatIdle /\ TableIdle /\ VaryIdle /\ LogIdle /\ FileIdle
    /\ MacroIdle /\ OrdIdle /\ ConcIdle /\ SensIdle /\ CmpIdle /\ PmIdle
    /\ pmacro \in {"pore_bind", "pore_transport"}
    /\ min_size \in 0..MaxPoreSize
    /\ IF pmacro = "pore_bind"
       THEN /\ max_size = min_size
            /\ ktable \in [1..1 -> PoreKLists]
       ELSE /\ max_size \in (min_size - 1)..MaxPoreSize
            /\ \E rows \in (max_size - min_size)..(max_size - min_size + 2) :
                  ktable \in [1..rows -> PoreKLists]
    /\ psize = min_size
    /\ pore_free = <<>>
    /\ pore_bound = <<>>
    /\ pc_complex = <<>>
    /\ pcomponents = {}
    /\ pmodel = ModelParameters
    /\ ppc = "check"
    /\ perr = "none"

\* lines 1302-1306 (pore_transport) and 1439-1440 (pore_bind)
PoreCheck ==
    /\ ppc = "check"
    /\ IF pmacro = "pore_transport" /\ Len(ktable) # max_size - min_size + 1
       THEN ppc' = "raised" /\ perr' = "ValueError: len(ktable)"
       ELSE ppc' = "species" /\ perr' = perr
    /\ UNCHANGED <<pmacro, min_size, max_size, ktable, psize, pore_free, pore_bound,
                   pc_complex, pcomponents, pmodel>>
    /\ UNCHANGED <<genVars, envVars, odeVars, cmpVars, pmVars, sensVars, concVars, ordVars, macroVars, fileVars, logVars, varyVars, tableVars, catVars>>

\* lines 1335 and 1466
PoreSpecies ==
    /\ ppc = "species"
    /\ psize <= max_size
    /\ \E pore \in {pore_species(psize)} :
        IF pore.type = "ValueError"
        THEN ppc' = "raised" /\ perr' = "ValueError: size" /\ UNCHANGED pore_free
        ELSE ppc' = "bound" /\ perr' = perr /\ pore_free' = pore
    /\ UNCHANGED <<pmacro, min_size, max_size, ktable, psize, pore_bound,
                   pc_complex, pcomponents, pmodel>>
    /\ UNCHANGED <<genVars, envVars, odeVars, cmpVars, pmVars, sensVars, concVars, ordVars, macroVars, fileVars, logVars, varyVars, tableVars, catVars>>

\* lines 1343-1352 and 1474-1483: a MonomerPattern has no monomer_patterns
PoreBound ==
    /\ ppc = "bound"
    /\ IF pore_free.type # "ComplexPattern"
       THEN ppc' = "raised" /\ perr' = "AttributeError"
            /\ UNCHANGED <<pore_bound, pc_complex>>
       ELSE \E cargo_bond_num \in {psize + 1} :
            /\ pore_bound' =
                 [pore_free EXCEPT !.monomer_patterns[1].site_conditions.sc_site =
                                       cargo_bond_num]
            /\ pc_complex' = ComplexOf(pore_bound', Cargo(cargo_bond_num))
            /\ ppc' = "complex"
            /\ perr' = perr
    /\ UNCHANGED <<pmacro, min_size, max_size, ktable, psize, pore_free, pcomponents, pmodel>>
    /\ UNCHANGED <<genVars, envVars, odeVars, cmpVars, pmVars, sensVars, concVars, ordVars, macroVars, fileVars, logVars, varyVars, tableVars, catVars>>

\* lines 1355-1359 and 1486-1490
PoreComplexRule ==
    /\ ppc = "complex"
    /\ \E call \in {MacroRuleCall(pmodel,
                      Format(IF pmacro = "pore_bind" THEN "pore_bind"
                             ELSE "pore_transport_complex", pore_rule_name(psize)),
                      [is_reversible |-> TRUE, reactant_pattern |-> <<pore_free, Cargo(0)>>,
                       product_pattern |-> <<pc_complex>>],
                      Slice(ktable[psize - min_size + 1], 0, 2), <<"kf", "kr">>)} :
        /\ pmodel' = call.model
        /\ IF call.err # "none"
           THEN ppc' = "raised" /\ perr' = call.err /\ UNCHANGED pcomponents
           ELSE /\ ppc' = IF pmacro = "pore_bind" THEN "return" ELSE "dissociate"
                /\ perr' = perr
                /\ pcomponents' = pcomponents \cup call.components
    /\ UNCHANGED <<pmacro, min_size, max_size, ktable, psize, pore_free, pore_bound, pc_complex>>
    /\ UNCHANGED <<genVars, envVars, odeVars, cmpVars, pmVars, sensVars, concVars, ordVars, macroVars, fileVars, logVars, varyVars, tableVars, catVars>>

\* lines 1360-1363, and the next size of the loop of line 1333
PoreDissociateRule ==
    /\ ppc = "dissociate"
    /\ \E call \in {MacroRuleCall(pmodel,
                      Format("pore_transport_dissociate", pore_rule_name(psize)),
                      [is_reversible |-> FALSE, reactant_pattern |-> <<pc_complex>>,
                       product_pattern |-> <<pore_free, Cargo(0)>>],
                      <<ktable[psize - min_size + 1][3]>>, <<"kc">>)} :
        /\ pmodel' = call.model
        /\ IF call.err # "none"
           THEN ppc' = "raised" /\ perr' = call.err /\ UNCHANGED <<pcomponents, psize>>
           ELSE /\ ppc' = IF psize < max_size THEN "species" ELSE "return"
                /\ psize' = IF psize < max_size THEN psize + 1 ELSE psize
                /\ perr' = perr
                /\ pcomponents' = pcomponents \cup call.components
    /\ UNCHANGED <<pmacro, min_size, max_size, ktable, pore_free, pore_bound, pc_complex>>
    /\ UNCHANGED <<genVars, envVars, odeVars, cmpVars, pmVars, sensVars, concVars, ordVars, macroVars, fileVars, logVars, varyVars, tableVars, catVars>>

\* lines 1365 and 1492, also for an empty range of sizes
PoreReturn ==
    /\ ppc = "return" \/ (ppc = "species" /\ psize > max_size)
    /\ ppc' = "returned"
    /\ UNCHANGED <<pmacro, min_size, max_size, ktable, psize, pore_free, pore_bound,
                   pc_complex, pcomponents, pmodel, perr>>
    /\ UNCHANGED <<genVars, envVars, odeVars, cmpVars, pmVars, sensVars, concVars, ordVars, macroVars, fileVars, logVars, varyVars, tableVars, catVars>>

PoreNext ==
    \/ PoreCheck
    \/ PoreSpecies
    \/ PoreBound
    \/ PoreComplexRule
    \/ PoreDissociateRule
    \/ PoreReturn

SpecPore == PoreInit /\ [][PoreNext]_vars

\* the monomer patterns of a pattern
SubunitsOf(pattern) ==
    IF pattern.type = "ComplexPattern" THEN pattern.monomer_patterns ELSE <<pattern>>
\* the subunits of a pattern that carry value on the site named
Carrying(pattern, site, value) ==
    {n \in 1..Len(SubunitsOf(pattern)) :
        /\ site \in DOMAIN SubunitsOf(pattern)[n].site_conditions
        /\ SubunitsOf(pattern)[n].site_conditions[site] = value}

\* C22: pore_species raises a ValueError for size <= 0 and for no other
\* size; the pattern for size 1 or 2 has size subunits with exactly one
\* site1 and one site2 unbound; the pattern for size >= 3 has size subunits,
\* subunit n carrying bond n on site1 and bond (n mod size)+1 on site2, so
\* that every bond 1..size is on exactly one site1 and one site2 and no site
\* is unbound
C22_Ring ==
    /\ perr = "ValueError: size" => ppc = "raised" /\ psize <= 0
    /\ ppc \in {"bound", "complex", "dissociate", "return"} =>
        /\ psize >= 1
        /\ Len(SubunitsOf(pore_free)) = psize
        /\ psize \in {1, 2} =>
              /\ Cardinality(Carrying(pore_free, "site1", 0)) = 1
              /\ Cardinality(Carrying(pore_free, "site2", 0)) = 1
        /\ psize >= 3 =>
              /\ \A n \in 1..psize :
                    /\ SubunitsOf(pore_free)[n].site_conditions.site1 = n
                    /\ SubunitsOf(pore_free)[n].site_conditions.site2 = (n % psize) + 1
              /\ \A bond \in 1..psize :
                    /\ Cardinality(Carrying(pore_free, "site1", bond)) = 1
                    /\ Cardinality(Carrying(pore_free, "site2", bond)) = 1
              /\ Carrying(pore_free, "site1", 0) = {}
              /\ Carrying(pore_free, "site2", 0) = {}

\* C22 witness: pore_species has returned the closed ring of a pore of the
\* largest size
C22_Witness ==
    /\ ppc = "bound"
    /\ psize = MaxPoreSize
    /\ Len(SubunitsOf(pore_free)) = MaxPoreSize
    /\ SubunitsOf(pore_free)[MaxPoreSize].site_conditions.site2 = 1

\* C26 as stated: for every pore size, pore_transport and pore_bind build
\* the pore:cargo complex with the one additional bond size+1, which is no
\* bond of the pore ring and appears on exactly two sites of the complex,
\* the cargo site of the first subunit and the binding site of the cargo,
\* all other subunits keeping their cargo site unbound
C26_Original ==
    /\ (ppc = "raised" /\ psize >= 1) => perr # "AttributeError"
    /\ ppc \in {"complex", "dissociate", "return"} =>
        /\ Carrying(pore_free, "site1", psize + 1) = {}
        /\ Carrying(pore_free, "site2", psize + 1) = {}
        /\ Carrying(pc_complex, "sc_site", psize + 1) = {1}
        /\ Carrying(pc_complex, "c_site", psize + 1) = {psize + 1}
        /\ Carrying(pc_complex, "site1", psize + 1) = {}
        /\ Carrying(pc_complex, "site2", psize + 1) = {}
        /\ \A n \in 2..psize : SubunitsOf(pc_complex)[n].site_conditions.sc_site = 0
        /\ Carrying(pore_free, "sc_site", 0) = 1..psize

====
